---------------------------- MODULE Spec2Model ----------------------------
(***************************************************************************)
(* A model of the lowering pass of src/src/def/lower.rs: a syntax tree of  *)
(* attribute-set declarations is folded, declaration by declaration, into  *)
(* a MergingSet, and then finished into Bindings inside a Module with its  *)
(* ModuleSourceMap and its diagnostics.                                    *)
(*                                                                         *)
(* Texts are sequences of one-character strings, so that escape decoding   *)
(* is computed.  Expression and name-definition ids are 0-based indexes    *)
(* into the arenas, as in the code.  A syntax pointer is the kind of the   *)
(* node and its place in the tree (the path of child indexes from the      *)
(* root), which stands for its text range.                                 *)
(***************************************************************************)
EXTENDS Integers, Sequences, FiniteSets, TLC

VARIABLES
    kind,       \* the root expression: "attrset", "rec", "letset" or "letin"
    family,     \* which family of declarations the input tree is drawn from
    decls,      \* the declarations of the root expression folded so far
    set,        \* the root's MergingSet
    ctx,        \* the LowerCtx: module and source map
    pc,         \* "merging" while folding, "done" after lower() returned
    entry,      \* module.entry_expr once done
    lit         \* the root expression when it is a path literal, else ENone

vars == <<kind, family, decls, set, ctx, pc, entry, lit>>

(***************************************************************************)
(* Bounds of the input trees.                                              *)
(***************************************************************************)
MaxDecls == 3
MaxParens == 1
\* the longest text of a path literal, in characters
MaxPathLen == 6

-----------------------------------------------------------------------------
(***************************************************************************)
(* Syntax pointers.                                                        *)
(***************************************************************************)
AstPtr(k, at) == [kind |-> k, at |-> at]

text_range(ptr) == ptr.at

(***************************************************************************)
(* LowerCtx and its arenas.                                                *)
(***************************************************************************)
MapInsert(m, k, v) == {p \in m : p[1] # k} \cup {<<k, v>>}

NewCtx ==
    [exprs |-> <<>>, name_defs |-> <<>>, diagnostics |-> <<>>,
     expr_map |-> {}, expr_map_rev |-> {},
     name_def_map |-> {}, name_def_map_rev |-> {},
     panicked |-> FALSE]

\* unreachable!(): the pass aborts
panic(c) == [c EXCEPT !.panicked = TRUE]

\* self.module.exprs.alloc(expr), with no source map entry
arena_alloc_expr(c, expr) ==
    [ctx |-> [c EXCEPT !.exprs = Append(@, expr)], id |-> Len(c.exprs)]

\* alloc_expr recording the pointer-to-id direction only (a fault that
\* C13_EveryLoweredNodeIsMapped detects)
alloc_expr_forward_only(c, expr, ptr) ==
    LET id == Len(c.exprs)
    IN  [ctx |-> [c EXCEPT !.exprs = Append(@, expr),
                           !.expr_map = MapInsert(@, ptr, id)],
         id |-> id]

alloc_expr(c, expr, ptr) ==
    LET id == Len(c.exprs)
    IN  [ctx |-> [c EXCEPT !.exprs = Append(@, expr),
                           !.expr_map = MapInsert(@, ptr, id),
                           !.expr_map_rev = MapInsert(@, id, ptr)],
         id |-> id]

alloc_name_def(c, name, ptr) ==
    LET id == Len(c.name_defs)
    IN  [ctx |-> [c EXCEPT !.name_defs = Append(@, [name |-> name]),
                           !.name_def_map = MapInsert(@, ptr, id),
                           !.name_def_map_rev = MapInsert(@, id, ptr)],
         id |-> id]

diagnostic(c, range, k) ==
    [c EXCEPT !.diagnostics = Append(@, [range |-> range, kind |-> k])]

lower_name(c, name, pos) == alloc_name_def(c, name, AstPtr("NAME", pos))

(***************************************************************************)
(* IR values.                                                              *)
(***************************************************************************)
KeyName(text) == [tag |-> "Name", name |-> text]
KeyNameDef(id) == [tag |-> "NameDef", id |-> id]
KeyDynamic(id) == [tag |-> "Dynamic", id |-> id]

ValueExpr(id) == [tag |-> "Expr", id |-> id]
ValueInherit(id) == [tag |-> "Inherit", id |-> id]
ValueInheritFrom(i) == [tag |-> "InheritFrom", id |-> i]

Placeholder == [tag |-> "Placeholder"]
MergingAttrset(s) == [tag |-> "Attrset", set |-> s]
Final(v) == [tag |-> "Final", value |-> v]

MergingSet_new(is_rec) ==
    [is_rec |-> is_rec, entries |-> <<>>, inherit_froms |-> <<>>]

\* The equality of BindingKey that IndexMap uses.
KeyEq(k1, k2) == k1 = k2

\* entries.get(&key): the index of the entry of an equal key, 0 when none
FindKey(entries, key) ==
    LET hits == {i \in 1..Len(entries) : KeyEq(entries[i].key, key)}
    IN  IF hits = {} THEN 0 ELSE CHOOSE i \in hits : \A j \in hits : i <= j


-----------------------------------------------------------------------------
(***************************************************************************)
(* The syntax tree (the parser's output, which lower() only reads).        *)
(* An absent child is ENone.  The children of a node at place pos are at   *)
(* pos \o <<i>>: the value of a path/value declaration and the source of   *)
(* an inherit at 0, the j-th attribute at j, the inner expression of a     *)
(* parenthesis or of ${ } at 1, the i-th declaration of a set at i.        *)
(***************************************************************************)
ENone == [e |-> "None"]
ELit(n) == [e |-> "Literal", lkind |-> "Int", value |-> n, fits |-> TRUE]
EBadInt == [e |-> "Literal", lkind |-> "Int", value |-> 0, fits |-> FALSE]
\* a Path or SearchPath literal whose token has the text tok
EPath(k, tok) == [e |-> "Literal", lkind |-> k, text |-> tok]
ERef(name) == [e |-> "Ref", name |-> name]
EParen(inner) == [e |-> "Paren", inner |-> inner]
EString(parts) == [e |-> "String", parts |-> parts]
EAttrSet(is_rec, is_let, ds) ==
    [e |-> "AttrSet", rec_token |-> is_rec, let_token |-> is_let, bindings |-> ds]
ELetIn(ds, body) == [e |-> "LetIn", bindings |-> ds, body |-> body]

Fragment(text) == [p |-> "Fragment", text |-> text]
Escape(text) == [p |-> "Escape", text |-> text]
PartDynamic(expr) == [p |-> "Dynamic", expr |-> expr]

AName(text) == [a |-> "Name", text |-> text]
AString(parts) == [a |-> "String", parts |-> parts]
ADynamic(expr) == [a |-> "Dynamic", expr |-> expr]

DPathValue(path, value) == [d |-> "AttrpathValue", attrpath |-> path, value |-> value]
DInherit(has_from, from, attrs) ==
    [d |-> "Inherit", has_from |-> has_from, from_expr |-> from, attrs |-> attrs]

SyntaxKind(e) ==
    CASE e.e = "Literal" -> "LITERAL"
      [] e.e = "Ref" -> "REF"
      [] e.e = "Paren" -> "PAREN"
      [] e.e = "String" -> "STRING"
      [] e.e = "AttrSet" -> "ATTR_SET"
      [] e.e = "LetIn" -> "LET_IN"

\* AstPtr::new(attr.syntax())
AttrPtr(attr, pos) ==
    AstPtr(CASE attr.a = "Name" -> "NAME"
             [] attr.a = "String" -> "STRING"
             [] attr.a = "Dynamic" -> "DYNAMIC", pos)

-----------------------------------------------------------------------------
(***************************************************************************)
(* The merging state.                                                      *)
(***************************************************************************)
NewEntry(ptr, dup, value) ==
    [def_ptr |-> ptr, is_duplicated |-> dup, value |-> value]

\* entries.insert(key, ent) of a key that is not in the map
InsertEntry(s, key, ent) ==
    LET i == FindKey(s.entries, key)
    IN  IF i = 0
        THEN [s EXCEPT !.entries = Append(@, [key |-> key, ent |-> ent])]
        ELSE [s EXCEPT !.entries[i].ent = ent]

emit_duplicated_key(ent, c, ptr) ==
    LET c1 == IF ~ent.is_duplicated
              THEN diagnostic(c, text_range(ent.def_ptr), "DuplicatedKey")
              ELSE c
    IN  [ent |-> [ent EXCEPT !.is_duplicated = TRUE],
         ctx |-> diagnostic(c1, text_range(ptr), "DuplicatedKey")]

recover_error(s, c, expr, ptr) ==
    LET a == alloc_expr(c, [tag |-> "Missing"], ptr)
    IN  [set |-> InsertEntry(s, KeyDynamic(a.id),
                             NewEntry(ptr, TRUE, Final(ValueExpr(expr)))),
         ctx |-> a.ctx]

(***************************************************************************)
(* Escape decoding of lower_key.                                           *)
(***************************************************************************)
\* an escape kept as it is written (a fault that
\* C10_StaticSpellingsResolveAlike detects)
DecodeEscape_raw(text) == text

DecodeEscape(text) ==
    CASE text = <<"\\", "n">> -> <<"\n">>
      [] text = <<"\\", "r">> -> <<"\r">>
      [] text = <<"\\", "t">> -> <<"\t">>
      [] OTHER -> Tail(text)

RECURSIVE StringContent(_)
StringContent(parts) ==
    IF parts = <<>> THEN <<>>
    ELSE LET part == Head(parts)
         IN  (IF part.p = "Fragment" THEN part.text ELSE DecodeEscape(part.text))
             \o StringContent(Tail(parts))

IsStaticString(parts) == \A i \in 1..Len(parts) : parts[i].p # "Dynamic"

-----------------------------------------------------------------------------
(***************************************************************************)
(* The lowering driver and the merge engine.                               *)
(***************************************************************************)
RECURSIVE lower_expr_opt(_, _, _)
RECURSIVE split(_, _)
RECURSIVE normalize_path_from(_, _, _, _)
RECURSIVE lower_expr(_, _, _)
RECURSIVE lower_string_parts(_, _, _, _)
RECURSIVE StripKeyParens(_, _)
RECURSIVE merge_bindings_from(_, _, _, _, _, _)
RECURSIVE merge_inherit_attrs(_, _, _, _, _, _)
RECURSIVE merge_path_value_at(_, _, _, _, _, _)
RECURSIVE merge_ast(_, _, _, _, _)
RECURSIVE MergingSet_finish_from(_, _, _)
RECURSIVE MergingEntry_finish(_, _)

\* lower_expr_opt handing out the next id for an absent child without
\* allocating it (a fault that C18_ReferencesPointBack detects)
lower_expr_opt_unallocated(c, e, pos) ==
    IF e.e # "None" THEN lower_expr(c, e, pos)
    ELSE [ctx |-> c, id |-> Len(c.exprs)]

lower_expr_opt(c, e, pos) ==
    IF e.e # "None" THEN lower_expr(c, e, pos)
    ELSE arena_alloc_expr(c, [tag |-> "Missing"])

\* the parts of a string, Dynamic ones lowered in source order
lower_string_parts(c, parts, k, pos) ==
    IF k > Len(parts) THEN [ctx |-> c, ids |-> <<>>]
    ELSE IF parts[k].p = "Dynamic"
         THEN LET Rest(r) ==
                    LET Join(rest) == [ctx |-> rest.ctx, ids |-> <<r.id>> \o rest.ids]
                    IN  Join(lower_string_parts(r.ctx, parts, k + 1, pos))
              IN  Rest(lower_expr_opt(c, parts[k].expr, pos \o <<k, 1>>))
         ELSE lower_string_parts(c, parts, k + 1, pos)

lower_string(c, parts, pos) ==
    LET Alloc(r) ==
          alloc_expr(r.ctx, [tag |-> "StringInterpolation", parts |-> r.ids],
                     AstPtr("STRING", pos))
    IN  Alloc(lower_string_parts(c, parts, 1, pos))

\* str::split(sep): the pieces of text between the separators
split(text, sep) ==
    LET hits == {i \in 1..Len(text) : text[i] = sep}
    IN  IF hits = {} THEN <<text>>
        ELSE LET i == CHOOSE i \in hits : \A j \in hits : i <= j
             IN  <<SubSeq(text, 1, i - 1)>>
                 \o split(SubSeq(text, i + 1, Len(text)), sep)

\* text.split_once('/').unwrap_or((text, ""))
split_once(text, sep) ==
    LET hits == {i \in 1..Len(text) : text[i] = sep}
    IN  IF hits = {} THEN <<text, <<>>>>
        ELSE LET i == CHOOSE i \in hits : \A j \in hits : i <= j
             IN  <<SubSeq(text, 1, i - 1), SubSeq(text, i + 1, Len(text))>>

\* ret.bytes().rposition(|c| c != b'/').unwrap_or(0): the 0-based index of
\* the last byte of ret that is not a slash
rposition_not_slash(ret) ==
    LET hits == {i \in 1..Len(ret) : ret[i] # "/"}
    IN  IF hits = {} THEN 0
        ELSE (CHOOSE i \in hits : \A j \in hits : i >= j) - 1

\* String::truncate(new_len)
truncate(ret, new_len) == IF new_len <= Len(ret) THEN SubSeq(ret, 1, new_len) ELSE ret

\* the loop of normalize_path, at the k-th kept segment
normalize_path_from(segs, k, supers, ret) ==
    IF k > Len(segs) THEN [supers |-> supers, raw_segments |-> ret]
    ELSE IF segs[k] # <<".", ".">>
    THEN normalize_path_from(segs, k + 1, supers,
                             (IF ret # <<>> THEN Append(ret, "/") ELSE ret)
                                 \o segs[k])
    ELSE IF ret = <<>>
    THEN normalize_path_from(segs, k + 1, supers + 1, ret)
    ELSE normalize_path_from(segs, k + 1, supers,
                             truncate(ret, rposition_not_slash(ret)))

normalize_path(path) ==
    normalize_path_from(
        SelectSeq(split(path, "/"), LAMBDA seg : seg # <<>> /\ seg # <<".">>),
        1, 0, <<>>)

PathAnchor(tag, name) == [tag |-> tag, name |-> name]

LiteralPath(anchor, supers, raw_segments) ==
    [tag |-> "Literal",
     path |-> [anchor |-> anchor, supers |-> supers, raw_segments |-> raw_segments]]

lower_literal(e) ==
    CASE e.lkind = "Int" ->
            IF e.fits THEN [tag |-> "Literal", lit |-> e.value]
            ELSE [tag |-> "Missing"]
      [] e.lkind = "SearchPath" ->
            LET Split(p) ==
                  LET Normalized(n) ==
                        LiteralPath(PathAnchor("Search", p[1]), n.supers,
                                    n.raw_segments)
                  IN  Normalized(normalize_path(p[2]))
            IN  Split(split_once(SubSeq(e.text, 2, Len(e.text) - 1), "/"))
      [] e.lkind = "Path" ->
            LET anchor == CASE e.text[1] = "/" -> "Absolute"
                            [] e.text[1] = "~" -> "Home"
                            [] OTHER -> "Relative"
                Normalized(n) ==
                  LiteralPath(PathAnchor(anchor, <<>>),
                              IF anchor = "Absolute" THEN 0 ELSE n.supers,
                              n.raw_segments)
            IN  Normalized(normalize_path(IF anchor = "Home" THEN Tail(e.text)
                                          ELSE e.text))

\* MergingSet::merge_bindings, MergingSet::finish: defined below
merge_bindings(s, c, ds, allow_dynamic, pos) ==
    merge_bindings_from(s, c, ds, 1, allow_dynamic, pos)

MergingSet_finish(s, c) ==
    LET Bindings(r) ==
          [bindings |-> [entries |-> r.entries, inherit_froms |-> s.inherit_froms],
           ctx |-> r.ctx]
    IN  Bindings(MergingSet_finish_from(s.entries, 1, c))

\* set.merge_bindings(..); set.finish(ctx) of a set of its own
lower_bindings(c, is_rec, ds, allow_dynamic, pos) ==
    LET Finished(m) == MergingSet_finish(m.set, m.ctx)
    IN  Finished(merge_bindings(MergingSet_new(is_rec), c, ds, allow_dynamic, pos))

lower_expr(c, e, pos) ==
    CASE e.e = "Literal" ->
            alloc_expr(c, lower_literal(e), AstPtr(SyntaxKind(e), pos))
      [] e.e = "Ref" ->
            alloc_expr(c, [tag |-> "Reference", name |-> e.name],
                       AstPtr(SyntaxKind(e), pos))
      [] e.e = "Paren" -> lower_expr_opt(c, e.inner, pos \o <<1>>)
      [] e.e = "String" -> lower_string(c, e.parts, pos)
      [] e.e = "LetIn" ->
            LET Body(f) ==
                  LET Alloc(b) ==
                        alloc_expr(b.ctx, [tag |-> "LetIn", bindings |-> f.bindings,
                                           body |-> b.id], AstPtr(SyntaxKind(e), pos))
                  IN  Alloc(lower_expr_opt(f.ctx, e.body, pos \o <<0>>))
            IN  Body(lower_bindings(c, TRUE, e.bindings, FALSE, pos))
      [] e.e = "AttrSet" ->
            LET Alloc(f) ==
                  alloc_expr(f.ctx,
                             [tag |-> IF ~e.rec_token /\ e.let_token
                                      THEN "LetAttrset" ELSE "Attrset",
                              bindings |-> f.bindings],
                             AstPtr(SyntaxKind(e), pos))
            IN  Alloc(lower_bindings(c, e.rec_token \/ e.let_token, e.bindings,
                                     TRUE, pos))

\* the loop of lower_key that strips the parentheses of ${ ... }
StripKeyParens(e, pos) ==
    IF e.e = "Paren" THEN StripKeyParens(e.inner, pos \o <<1>>)
    ELSE [e |-> e, pos |-> pos]

\* the expression under the parentheses around e
Unparen(e) == StripKeyParens(e, <<>>).e

\* the tail of lower_key, for the string ast_string at pos
lower_key_string(c, is_rec, parts, pos) ==
    IF IsStaticString(parts)
    THEN IF is_rec
         THEN LET Key(n) == [ctx |-> n.ctx, key |-> KeyNameDef(n.id)]
              IN  Key(alloc_name_def(c, StringContent(parts), AstPtr("STRING", pos)))
         ELSE [ctx |-> c, key |-> KeyName(StringContent(parts))]
    ELSE LET Key(r) == [ctx |-> r.ctx, key |-> KeyDynamic(r.id)]
         IN  Key(lower_string(c, parts, pos))

\* lower_key taking ${x} for the name x (a fault that C11_DynamicKeysNeverMerge
\* detects)
lower_key_by_text(c, is_rec, attr, pos) ==
    CASE attr.a = "Name" ->
            IF is_rec
            THEN LET Key(n) == [ctx |-> n.ctx, key |-> KeyNameDef(n.id)]
                 IN  Key(lower_name(c, attr.text, pos))
            ELSE [ctx |-> c, key |-> KeyName(attr.text)]
      [] attr.a = "String" -> lower_key_string(c, is_rec, attr.parts, pos)
      [] attr.a = "Dynamic" ->
            LET Stripped(s) ==
                  IF s.e.e = "String"
                  THEN lower_key_string(c, is_rec, s.e.parts, s.pos)
                  ELSE LET Key(r) ==
                             [ctx |-> r.ctx,
                              key |-> IF s.e.e = "Ref" THEN KeyName(s.e.name)
                                      ELSE KeyDynamic(r.id)]
                       IN  Key(lower_expr_opt(c, s.e, s.pos))
            IN  Stripped(StripKeyParens(attr.expr, pos \o <<1>>))

lower_key(c, is_rec, attr, pos) ==
    CASE attr.a = "Name" ->
            IF is_rec
            THEN LET Key(n) == [ctx |-> n.ctx, key |-> KeyNameDef(n.id)]
                 IN  Key(lower_name(c, attr.text, pos))
            ELSE [ctx |-> c, key |-> KeyName(attr.text)]
      [] attr.a = "String" -> lower_key_string(c, is_rec, attr.parts, pos)
      [] attr.a = "Dynamic" ->
            LET Stripped(s) ==
                  IF s.e.e = "String"
                  THEN lower_key_string(c, is_rec, s.e.parts, s.pos)
                  ELSE LET Key(r) == [ctx |-> r.ctx, key |-> KeyDynamic(r.id)]
                       IN  Key(lower_expr_opt(c, s.e, s.pos))
            IN  Stripped(StripKeyParens(attr.expr, pos \o <<1>>))

\* the value of an inherited name: InheritFrom(id), or Inherit of a new reference
inherit_value(c, key, from, ptr) ==
    IF from.some
    THEN [ctx |-> c, value |-> ValueInheritFrom(from.id)]
    ELSE LET Value(a) == [ctx |-> a.ctx, value |-> ValueInherit(a.id)]
         IN  Value(alloc_expr(c, [tag |-> "Reference",
                                  name |-> IF key.tag = "NameDef"
                                           THEN c.name_defs[key.id + 1].name
                                           ELSE key.name], ptr))

\* the body of the loop of merge_inherit, for one attribute
merge_inherit_attr(s, c, attr, from, pos) ==
    LET ptr == AttrPtr(attr, pos)
        Keyed(k) ==
          LET Found(i) ==
                IF k.key.tag = "Dynamic"
                THEN recover_error(
                         s, diagnostic(k.ctx, text_range(ptr), "InvalidDynamic"),
                         k.key.id, ptr)
                ELSE IF i # 0
                THEN LET Emitted(em) ==
                           [set |-> [s EXCEPT !.entries[i].ent = em.ent],
                            ctx |-> em.ctx]
                     IN  Emitted(emit_duplicated_key(s.entries[i].ent, k.ctx, ptr))
                ELSE LET Inserted(v) ==
                           [set |-> InsertEntry(s, k.key,
                                                NewEntry(ptr, FALSE, Final(v.value))),
                            ctx |-> v.ctx]
                     IN  Inserted(inherit_value(k.ctx, k.key, from, ptr))
          IN  Found(FindKey(s.entries, k.key))
    IN  Keyed(lower_key(c, s.is_rec, attr, pos))

\* the loop of merge_inherit over i.attrs(), from its j-th attribute
merge_inherit_attrs(s, c, attrs, j, from, pos) ==
    IF j > Len(attrs) THEN [set |-> s, ctx |-> c]
    ELSE LET Rest(r) == merge_inherit_attrs(r.set, r.ctx, attrs, j + 1, from, pos)
         IN  Rest(merge_inherit_attr(s, c, attrs[j], from, pos \o <<j>>))

\* the from_expr of merge_inherit with from_id taken after the push (a
\* fault that C8_InheritFromSharesOneSource detects)
push_inherit_from_after(s, c, e, pos) ==
    LET Pushed(r) ==
          [set |-> [s EXCEPT !.inherit_froms = Append(@, r.id)],
           ctx |-> r.ctx,
           from |-> [some |-> TRUE, id |-> Len(s.inherit_froms) + 1]]
    IN  Pushed(lower_expr_opt(c, e, pos))

\* the from_expr of merge_inherit: lowered and pushed to inherit_froms
push_inherit_from(s, c, e, pos) ==
    LET Pushed(r) ==
          [set |-> [s EXCEPT !.inherit_froms = Append(@, r.id)],
           ctx |-> r.ctx,
           from |-> [some |-> TRUE, id |-> Len(s.inherit_froms)]]
    IN  Pushed(lower_expr_opt(c, e, pos))

merge_inherit(s, c, d, pos) ==
    IF d.has_from
    THEN LET Attrs(f) == merge_inherit_attrs(f.set, f.ctx, d.attrs, 1, f.from, pos)
         IN  Attrs(push_inherit_from(s, c, d.from_expr, pos \o <<0>>))
    ELSE merge_inherit_attrs(s, c, d.attrs, 1, [some |-> FALSE, id |-> 0], pos)

\* the Final arm of make_attrset without its emit_duplicated_key (a fault that
\* C3_ConflictRule detects)
make_attrset_final_silent(ent, c, is_rec, def_ptr) ==
    LET Recovered(r) ==
          [ent |-> [ent EXCEPT !.def_ptr = def_ptr,
                               !.value = MergingAttrset(r.set)],
           ctx |-> r.ctx]
    IN  Recovered(IF ent.value.value.tag = "Expr"
                  THEN recover_error(MergingSet_new(is_rec), c,
                                     ent.value.value.id, ent.def_ptr)
                  ELSE [set |-> MergingSet_new(is_rec), ctx |-> c])

\* the Final arm of make_attrset recovering the old value whatever its kind
\* (a fault that C20_InheritedValueIsReplaced detects)
make_attrset_final_recovering(ent, c, is_rec, def_ptr) ==
    LET Recovered(r) ==
          LET Emitted(em) ==
                [ent |-> [em.ent EXCEPT !.def_ptr = def_ptr,
                                        !.value = MergingAttrset(r.set)],
                 ctx |-> em.ctx]
          IN  Emitted(emit_duplicated_key(ent, r.ctx, def_ptr))
    IN  Recovered(recover_error(MergingSet_new(is_rec), c,
                                ent.value.value.id, ent.def_ptr))

\* the Final arm of make_attrset
make_attrset_final(ent, c, is_rec, def_ptr) ==
    LET Recovered(r) ==
          LET Emitted(em) ==
                [ent |-> [em.ent EXCEPT !.def_ptr = def_ptr,
                                        !.value = MergingAttrset(r.set)],
                 ctx |-> em.ctx]
          IN  Emitted(emit_duplicated_key(ent, r.ctx, def_ptr))
    IN  Recovered(IF ent.value.value.tag = "Expr"
                  THEN recover_error(MergingSet_new(is_rec), c,
                                     ent.value.value.id, ent.def_ptr)
                  ELSE [set |-> MergingSet_new(is_rec), ctx |-> c])

\* make_attrset creating a recursive set whatever it is asked for (a fault that
\* C9_SegmentsFollowTheirSet detects)
make_attrset_rec(ent, c, is_rec, def_ptr) ==
    CASE ent.value.tag = "Placeholder" ->
            [ent |-> [ent EXCEPT !.value = MergingAttrset(MergingSet_new(TRUE))],
             ctx |-> c]
      [] ent.value.tag = "Attrset" -> [ent |-> ent, ctx |-> c]
      [] ent.value.tag = "Final" -> make_attrset_final(ent, c, TRUE, def_ptr)

\* make_attrset replacing the set of an entry that already is one (a fault that
\* C5_OrderIndependent detects)
make_attrset_reset(ent, c, is_rec, def_ptr) ==
    CASE ent.value.tag = "Final" -> make_attrset_final(ent, c, is_rec, def_ptr)
      [] OTHER ->
            [ent |-> [ent EXCEPT !.value = MergingAttrset(MergingSet_new(is_rec))],
             ctx |-> c]

\* make_attrset giving an existing set the recursiveness asked for (a fault
\* that C17_RecursivenessIsFixed detects)
make_attrset_last_wins(ent, c, is_rec, def_ptr) ==
    CASE ent.value.tag = "Placeholder" ->
            [ent |-> [ent EXCEPT !.value = MergingAttrset(MergingSet_new(is_rec))],
             ctx |-> c]
      [] ent.value.tag = "Attrset" ->
            [ent |-> [ent EXCEPT !.value.set.is_rec = is_rec], ctx |-> c]
      [] ent.value.tag = "Final" -> make_attrset_final(ent, c, is_rec, def_ptr)

make_attrset(ent, c, is_rec, def_ptr) ==
    CASE ent.value.tag = "Placeholder" ->
            [ent |-> [ent EXCEPT !.value = MergingAttrset(MergingSet_new(is_rec))],
             ctx |-> c]
      [] ent.value.tag = "Attrset" -> [ent |-> ent, ctx |-> c]
      [] ent.value.tag = "Final" -> make_attrset_final(ent, c, is_rec, def_ptr)

\* merge_ast doing nothing at all when there is no RHS (a fault that
\* C15_NoPlaceholderIsLeft detects)
merge_ast_value_skipping(ent, c, def_ptr, e, pos) ==
    IF e.e = "None" THEN [ent |-> ent, ctx |-> c]
    ELSE IF ent.value.tag = "Placeholder"
    THEN LET Valued(r) ==
               [ent |-> [ent EXCEPT !.value = Final(ValueExpr(r.id))], ctx |-> r.ctx]
         IN  Valued(lower_expr_opt(c, e, pos))
    ELSE emit_duplicated_key(ent, c, def_ptr)

\* merge_ast reporting a duplicate whether or not there is a RHS (a fault
\* that C19_AbsentValueIsSilentAtItsKey detects)
merge_ast_value_unsuppressed(ent, c, def_ptr, e, pos) ==
    IF ent.value.tag = "Placeholder"
    THEN LET Valued(r) ==
               [ent |-> [ent EXCEPT !.value = Final(ValueExpr(r.id))], ctx |-> r.ctx]
         IN  Valued(lower_expr_opt(c, e, pos))
    ELSE emit_duplicated_key(ent, c, def_ptr)

\* merge_ast letting the last terminal value of a key replace the first (a
\* fault that C22_FirstDefinitionWins detects)
merge_ast_value_last_wins(ent, c, def_ptr, e, pos) ==
    IF ent.value.tag = "Placeholder"
    THEN LET Valued(r) ==
               [ent |-> [ent EXCEPT !.value = Final(ValueExpr(r.id))], ctx |-> r.ctx]
         IN  Valued(lower_expr_opt(c, e, pos))
    ELSE IF e.e = "None" THEN [ent |-> ent, ctx |-> c]
    ELSE LET Emitted(em) ==
               IF ent.value.tag # "Final" THEN em
               ELSE LET Valued(r) ==
                          [ent |-> [em.ent EXCEPT !.value = Final(ValueExpr(r.id)),
                                                  !.def_ptr = def_ptr],
                           ctx |-> r.ctx]
                    IN  Valued(lower_expr_opt(em.ctx, e, pos))
         IN  Emitted(emit_duplicated_key(ent, c, def_ptr))

\* the last match of merge_ast: an unmergable non-Attrset Expr
merge_ast_value(ent, c, def_ptr, e, pos) ==
    IF ent.value.tag = "Placeholder"
    THEN LET Valued(r) ==
               [ent |-> [ent EXCEPT !.value = Final(ValueExpr(r.id))], ctx |-> r.ctx]
         IN  Valued(lower_expr_opt(c, e, pos))
    ELSE IF e.e # "None" THEN emit_duplicated_key(ent, c, def_ptr)
         ELSE [ent |-> ent, ctx |-> c]

\* merge_ast without the arm that merges a set literal: the literal becomes
\* an ordinary value (a fault that C1_MergedIntoOneSet detects)
merge_ast_opaque(ent, c, def_ptr, e, pos) ==
    merge_ast_value(ent, c, def_ptr, Unparen(e), StripKeyParens(e, pos).pos)

merge_ast(ent, c, def_ptr, e, pos) ==
    CASE e.e = "Paren" -> merge_ast(ent, c, def_ptr, e.inner, pos \o <<1>>)
      [] e.e = "AttrSet" /\ ~e.let_token ->
            LET Made(m) ==
                  LET Merged(b) ==
                        [ent |-> [m.ent EXCEPT !.value = MergingAttrset(b.set)],
                         ctx |-> b.ctx]
                  IN  Merged(merge_bindings(m.ent.value.set, m.ctx, e.bindings,
                                            TRUE, pos))
            IN  Made(make_attrset(ent, c, e.rec_token, AstPtr("ATTR_SET", pos)))
      [] OTHER -> merge_ast_value(ent, c, def_ptr, e, pos)

\* entries.entry(key).or_insert_with(Placeholder): the set and the entry's index
entry_or_insert(s, key, attr_ptr) ==
    LET Found(i) ==
          IF i # 0 THEN [set |-> s, i |-> i]
          ELSE [set |-> InsertEntry(s, key, NewEntry(attr_ptr, FALSE, Placeholder)),
                i |-> Len(s.entries) + 1]
    IN  Found(FindKey(s.entries, key))

\* the loop of merge_path_value, at the j-th attribute of the path
merge_path_value_at(s, c, d, j, allow_dynamic, pos) ==
    LET attr_ptr == AttrPtr(d.attrpath[j], pos \o <<j>>)
        Keyed(k) ==
          LET Deep(c1, t) ==
                IF j < Len(d.attrpath)
                THEN LET Made(m) ==
                           LET Inner(r) ==
                                 [set |-> [t.set EXCEPT !.entries[t.i].ent =
                                             [m.ent EXCEPT !.value =
                                                MergingAttrset(r.set)]],
                                  ctx |-> r.ctx]
                           IN  Inner(merge_path_value_at(m.ent.value.set, m.ctx, d,
                                                         j + 1, allow_dynamic, pos))
                     IN  Made(make_attrset(t.set.entries[t.i].ent, c1, FALSE, attr_ptr))
                ELSE LET Merged(r) ==
                           [set |-> [t.set EXCEPT !.entries[t.i].ent = r.ent],
                            ctx |-> r.ctx]
                     IN  Merged(merge_ast(t.set.entries[t.i].ent, c1, attr_ptr,
                                          d.value, pos \o <<0>>))
          IN  Deep(IF ~allow_dynamic /\ k.key.tag = "Dynamic"
                   THEN diagnostic(k.ctx, text_range(attr_ptr), "InvalidDynamic")
                   ELSE k.ctx,
                   entry_or_insert(s, k.key, attr_ptr))
    IN  Keyed(lower_key(c, s.is_rec, d.attrpath[j], pos \o <<j>>))

\* merge_path_value skipping a declaration that has no attribute path (a
\* fault that C14_MissingPathIsRecovered detects)
merge_path_value_skipping(s, c, d, allow_dynamic, pos) ==
    IF d.attrpath = <<>> THEN [set |-> s, ctx |-> c]
    ELSE merge_path_value_at(s, c, d, 1, allow_dynamic, pos)

merge_path_value(s, c, d, allow_dynamic, pos) ==
    IF d.attrpath = <<>>
    THEN LET Recover(v) ==
               recover_error(s, v.ctx, v.id, AstPtr("ATTR_PATH_VALUE", pos))
         IN  Recover(lower_expr_opt(c, d.value, pos \o <<0>>))
    ELSE merge_path_value_at(s, c, d, 1, allow_dynamic, pos)

\* one iteration of the loop of merge_bindings
merge_binding(s, c, d, allow_dynamic, pos) ==
    IF d.d = "Inherit" THEN merge_inherit(s, c, d, pos)
    ELSE merge_path_value(s, c, d, allow_dynamic, pos)

merge_bindings_from(s, c, ds, i, allow_dynamic, pos) ==
    IF i > Len(ds) THEN [set |-> s, ctx |-> c]
    ELSE LET Rest(r) ==
               merge_bindings_from(r.set, r.ctx, ds, i + 1, allow_dynamic, pos)
         IN  Rest(merge_binding(s, c, ds[i], allow_dynamic, pos \o <<i>>))

MergingEntry_finish(ent, c) ==
    CASE ent.value.tag = "Placeholder" ->
            [value |-> [tag |-> "Unreachable", id |-> 0], ctx |-> panic(c)]
      [] ent.value.tag = "Final" -> [value |-> ent.value.value, ctx |-> c]
      [] ent.value.tag = "Attrset" ->
            LET Alloc(f) ==
                  LET Value(a) == [value |-> ValueExpr(a.id), ctx |-> a.ctx]
                  IN  Value(alloc_expr(f.ctx, [tag |-> "Attrset",
                                               bindings |-> f.bindings], ent.def_ptr))
            IN  Alloc(MergingSet_finish(ent.value.set, c))

MergingSet_finish_from(entries, i, c) ==
    IF i > Len(entries) THEN [entries |-> <<>>, ctx |-> c]
    ELSE LET Finished(v) ==
               LET Join(rest) ==
                     [entries |-> <<[key |-> entries[i].key, value |-> v.value]>>
                                  \o rest.entries,
                      ctx |-> rest.ctx]
               IN  Join(MergingSet_finish_from(entries, i + 1, v.ctx))
         IN  Finished(MergingEntry_finish(entries[i].ent, c))

-----------------------------------------------------------------------------
(***************************************************************************)
(* The input trees.  Each behaviour lowers one root expression, an         *)
(* attribute set `{ }`, `rec { }`, `let { }` or a `let ... in`, whose      *)
(* declarations are drawn from one family of declarations.                 *)
(***************************************************************************)
na == <<"a">>
nb == <<"b">>
nc == <<"c">>
nd == <<"d">>
nx == <<"x">>

\* n parentheses around e
RECURSIVE Parens(_, _)
Parens(n, e) == IF n = 0 THEN e ELSE EParen(Parens(n - 1, e))

Kinds == {"attrset", "rec", "letset", "letin"}

Lit1 == ELit(1)
Lit2 == ELit(2)
SetB == EAttrSet(FALSE, FALSE, <<DPathValue(<<AName(nb)>>, Lit1)>>)
SetC == EAttrSet(FALSE, FALSE, <<DPathValue(<<AName(nc)>>, Lit2)>>)
RecC == EAttrSet(TRUE, FALSE, <<DPathValue(<<AName(nc)>>, Lit2)>>)

\* family "merge": dotted paths, set literals and terminal values on few names
MergeDecls ==
    {DPathValue(<<AName(na), AName(nb)>>, Lit1),
     DPathValue(<<AName(na), AName(nc)>>, Lit2),
     DPathValue(<<AName(na), AName(nd)>>, ELit(3)),
     DPathValue(<<AName(na)>>, SetB),
     DPathValue(<<AName(na)>>, RecC),
     DPathValue(<<AName(na)>>, Lit1),
     DPathValue(<<AName(na)>>, ENone),
     DPathValue(<<AName(na), AName(nb)>>, ENone),
     DPathValue(<<AName(nb)>>, ELit(4)),
     DInherit(FALSE, ENone, <<AName(na)>>)}
    \cup {DPathValue(<<AName(na)>>, Parens(n, SetC)) : n \in 0..MaxParens}

\* the spellings of a key whose text is statically known
StrA == <<Fragment(na)>>
EscA == <<Escape(<<"\\", "a">>)>>
EscN == <<Escape(<<"\\", "n">>)>>
Interp == <<Fragment(na), PartDynamic(ERef(nx))>>

StaticSpellings(text) ==
    (IF text \in {na, nb, nc, nd} THEN {AName(text)} ELSE {})
    \cup (IF text = na
          THEN {AString(StrA), AString(EscA)}
               \cup {ADynamic(Parens(n, EString(StrA))) : n \in 0..MaxParens}
          ELSE IF text = <<"\n">> THEN {AString(EscN)}
          ELSE {})

DynamicSpellings ==
    {AString(Interp), ADynamic(ENone), ADynamic(ERef(nx)),
     ADynamic(Parens(MaxParens, ERef(nx)))}

\* family "keys": every spelling of a key, in paths and in inherit lists
KeysDecls ==
    {DPathValue(<<k>>, Lit1) :
        k \in StaticSpellings(na) \cup StaticSpellings(<<"\n">>)
              \cup (DynamicSpellings \ {ADynamic(ERef(nx))})}
    \cup {DPathValue(<<AName(nb), ADynamic(ERef(nx))>>, Lit1),
          DPathValue(<<AName(nb)>>,
                     EAttrSet(FALSE, FALSE, <<DPathValue(<<ADynamic(ERef(nx))>>, Lit1)>>)),
          DPathValue(<<AName(nb)>>,
                     EAttrSet(FALSE, FALSE,
                              <<DInherit(FALSE, ENone, <<ADynamic(ERef(nx))>>)>>)),
          DInherit(FALSE, ENone, <<ADynamic(ERef(nx))>>),
          DInherit(TRUE, ERef(nx), <<AString(StrA), AString(Interp)>>)}

\* family "inherit": inherit declarations against values and nested sets
InheritDecls ==
    {DInherit(FALSE, ENone, <<AName(na)>>),
     DInherit(FALSE, ENone, <<AName(na), AName(nb)>>),
     DInherit(TRUE, ERef(nx), <<AName(na), AName(nb)>>),
     DInherit(TRUE, ERef(nx), <<>>),
     DInherit(TRUE, ENone, <<AName(nb)>>),
     DPathValue(<<AName(na)>>, Lit1),
     DPathValue(<<AName(na), AName(nb)>>, Lit1),
     DPathValue(<<AName(nb)>>,
                EAttrSet(FALSE, FALSE, <<DInherit(TRUE, ERef(nx), <<AName(na)>>)>>))}

\* family "malformed": declarations with absent paths, values and sources
MalformedDecls ==
    {DPathValue(<<>>, Lit1),
     DPathValue(<<>>, ENone),
     DPathValue(<<>>, SetB),
     DPathValue(<<AName(na)>>, ENone),
     DPathValue(<<AName(na)>>, EParen(ENone)),
     DPathValue(<<AName(na), AName(nb)>>, ENone),
     DPathValue(<<AName(na)>>, Lit1),
     DPathValue(<<AName(na)>>, EAttrSet(FALSE, FALSE, <<DPathValue(<<>>, Lit2)>>)),
     DInherit(FALSE, ENone, <<AName(na)>>),
     DInherit(TRUE, ENone, <<>>)}

Modes ==
    ({"attrset", "rec"} \X {"merge"})
    \cup ({"attrset", "letin"} \X {"keys"})
    \cup ({"attrset", "letset"} \X {"inherit"})

Universe(f) ==
    CASE f = "merge" -> MergeDecls
      [] f = "keys" -> KeysDecls
      [] f = "inherit" -> InheritDecls
      [] f = "malformed" -> MalformedDecls

-----------------------------------------------------------------------------
(***************************************************************************)
(* The state machine: lower() on the root expression.                      *)
(***************************************************************************)
Init ==
    /\ \E m \in Modes : kind = m[1] /\ family = m[2]
    /\ decls = <<>>
    /\ set = MergingSet_new(kind # "attrset")
    /\ ctx = NewCtx
    /\ pc = "merging"
    /\ entry = 0
    /\ lit = ENone

\* the let-in passing `true` like an attribute set (a fault that
\* C7_InvalidDynamicOncePerKey detects)
allow_dynamic_always == TRUE

allow_dynamic == kind # "letin"

\* merge_bindings reaches an `inherit` declaration
MergeInherit ==
    /\ pc = "merging"
    /\ Len(decls) < MaxDecls
    /\ \E d \in Universe(family) :
          /\ d.d = "Inherit"
          /\ LET Fold(r) == set' = r.set /\ ctx' = r.ctx
             IN  Fold(merge_inherit(set, ctx, d, <<Len(decls) + 1>>))
          /\ decls' = Append(decls, d)
    /\ UNCHANGED <<kind, family, pc, entry, lit>>

\* merge_bindings reaches a path/value declaration
MergePathValue ==
    /\ pc = "merging"
    /\ Len(decls) < MaxDecls
    /\ \E d \in Universe(family) :
          /\ d.d = "AttrpathValue"
          /\ LET Fold(r) == set' = r.set /\ ctx' = r.ctx
             IN  Fold(merge_path_value(set, ctx, d, allow_dynamic,
                                       <<Len(decls) + 1>>))
          /\ decls' = Append(decls, d)
    /\ UNCHANGED <<kind, family, pc, entry, lit>>

\* the declarations are exhausted: set.finish, the root node, lower() returns
Finish ==
    /\ pc = "merging"
    /\ LET Root(a) == ctx' = a.ctx /\ entry' = a.id
           Finished(f) ==
             IF kind = "letin"
             THEN \E body \in {ENone, ELit(0)} :
                    LET Alloc(b) ==
                          Root(alloc_expr(b.ctx,
                                          [tag |-> "LetIn", bindings |-> f.bindings,
                                           body |-> b.id], AstPtr("LET_IN", <<>>)))
                    IN  Alloc(lower_expr_opt(f.ctx, body, <<0>>))
             ELSE Root(alloc_expr(f.ctx,
                                  [tag |-> IF kind = "letset" THEN "LetAttrset"
                                           ELSE "Attrset",
                                   bindings |-> f.bindings],
                                  AstPtr("ATTR_SET", <<>>)))
       IN  Finished(MergingSet_finish(set, ctx))
    /\ pc' = "done"
    /\ UNCHANGED <<kind, family, decls, set, lit>>

Next == MergeInherit \/ MergePathValue \/ Finish

Spec == Init /\ [][Next]_vars

\* lower() on a root `{ }` or `rec { }` of the family "malformed"
MalformedInit ==
    /\ kind \in {"attrset", "rec"}
    /\ family = "malformed"
    /\ decls = <<>>
    /\ set = MergingSet_new(kind # "attrset")
    /\ ctx = NewCtx
    /\ pc = "merging"
    /\ entry = 0
    /\ lit = ENone

MalformedSpec == MalformedInit /\ [][Next]_vars

(***************************************************************************)
(* lower() on a root expression that is a path literal.                    *)
(***************************************************************************)
PathChars == {"a", "b", ".", "/"}

\* the texts of Path tokens: a slash in them, `~` only in front
PathTexts ==
    LET plain == UNION {[1..n -> PathChars] : n \in 1..MaxPathLen}
    IN  {t \in plain : \E i \in 1..Len(t) : t[i] = "/"}
        \cup {<<"~">> \o t : t \in {t \in plain : Len(t) < MaxPathLen /\ t[1] = "/"}}

\* the texts of SearchPath tokens: <name> or <name/path>
SearchTexts ==
    {<<"<", "p">> \o t \o <<">">> :
        t \in {<<>>} \cup {t \in UNION {[1..n -> PathChars] : n \in 1..MaxPathLen - 3} :
                                t[1] = "/"}}

PathLiterals ==
    {EPath("Path", t) : t \in PathTexts}
    \cup {EPath("SearchPath", t) : t \in SearchTexts}

PathInit ==
    /\ kind = "literal"
    /\ family = "path"
    /\ decls = <<>>
    /\ set = MergingSet_new(FALSE)
    /\ ctx = NewCtx
    /\ pc = "lowering"
    /\ entry = 0
    /\ lit \in PathLiterals

\* lower_expr_opt of the root, lower() returns
LowerLiteral ==
    /\ pc = "lowering"
    /\ LET Root(a) == ctx' = a.ctx /\ entry' = a.id
       IN  Root(lower_expr_opt(ctx, lit, <<>>))
    /\ pc' = "done"
    /\ UNCHANGED <<kind, family, decls, set, lit>>

PathNext == LowerLiteral

PathSpec == PathInit /\ [][PathNext]_vars

-----------------------------------------------------------------------------
(***************************************************************************)
(* Reading the input tree and the output module.                           *)
(***************************************************************************)
\* an expression that is present and is not a mergeable set literal
IsTerminal(e) ==
    /\ e.e # "None"
    /\ Unparen(e).e # "None"
    /\ ~(Unparen(e).e = "AttrSet" /\ ~Unparen(e).let_token)

\* a non-let attribute-set literal, possibly in parentheses
IsSetLiteral(e) == Unparen(e).e = "AttrSet" /\ ~Unparen(e).let_token

\* the key texts of the input trees
Texts == {na, nb, nc, nd, <<"\n">>}

\* the statically known spellings, and the text each stands for
StaticAttrs == UNION {StaticSpellings(t) : t \in Texts}

StaticTextOf ==
    [attr \in StaticAttrs |-> CHOOSE t \in Texts : attr \in StaticSpellings(t)]

IsStaticAttr(attr) == attr \in StaticAttrs

StaticText(attr) == StaticTextOf[attr]

\* Module::entry_expr's Bindings, once lower() returned
RootBindings == ctx.exprs[entry + 1].bindings

\* the text of a Name key, or of the NameDef a NameDef key refers to
KeyText(c, key) ==
    IF key.tag = "NameDef" THEN c.name_defs[key.id + 1].name ELSE key.name

DiagnosticsOf(c, k) == SelectSeq(c.diagnostics, LAMBDA d : d.kind = k)

\* how many diagnostics of kind k are at range r
CountAt(c, k, r) ==
    Cardinality({i \in 1..Len(c.diagnostics) :
                    c.diagnostics[i] = [range |-> r, kind |-> k]})

-----------------------------------------------------------------------------
(***************************************************************************)
(* C1.  Declarations of the same first key of a non-recursive set, written *)
(* as dotted paths or as set literals.                                     *)
(***************************************************************************)
\* a.x = v, v a terminal value
C1_IsPathShape(d) ==
    /\ d.d = "AttrpathValue"
    /\ Len(d.attrpath) = 2
    /\ d.attrpath[1] = AName(na)
    /\ d.attrpath[2].a = "Name"
    /\ IsTerminal(d.value)

\* a = { x = v; ... } or a = rec { x = v; ... }, possibly in parentheses
C1_IsSetShape(d) ==
    /\ d.d = "AttrpathValue"
    /\ d.attrpath = <<AName(na)>>
    /\ IsSetLiteral(d.value)
    /\ \A i \in 1..Len(Unparen(d.value).bindings) :
          LET b == Unparen(d.value).bindings[i]
          IN  /\ b.d = "AttrpathValue"
              /\ Len(b.attrpath) = 1
              /\ b.attrpath[1].a = "Name"
              /\ IsTerminal(b.value)

\* the inner keys a declaration of one of the two shapes gives to `a`
C1_InnerKeys(d) ==
    IF Len(d.attrpath) = 2 THEN <<d.attrpath[2].text>>
    ELSE [i \in 1..Len(Unparen(d.value).bindings) |->
             Unparen(d.value).bindings[i].attrpath[1].text]

RECURSIVE C1_AllInnerKeys(_, _)
C1_AllInnerKeys(ds, i) ==
    IF i > Len(ds) THEN <<>>
    ELSE C1_InnerKeys(ds[i]) \o C1_AllInnerKeys(ds, i + 1)

C1_Case ==
    /\ pc = "done"
    /\ kind = "attrset"
    /\ Len(decls) >= 1
    /\ \A i \in 1..Len(decls) : C1_IsPathShape(decls[i]) \/ C1_IsSetShape(decls[i])
    /\ LET keys == C1_AllInnerKeys(decls, 1)
       IN  \A i, j \in 1..Len(keys) : i # j => keys[i] # keys[j]

\* C1: in a non-recursive set, declarations of `a` as dotted paths a.x = v
\* and as non-let set literals a = { x = v; }, in any order and mix, with
\* distinct inner keys, give exactly one entry Name(a) whose value is one
\* Attrset holding exactly the inner keys, and no diagnostic.
C1_MergedIntoOneSet ==
    C1_Case =>
        /\ ctx.diagnostics = <<>>
        /\ ~ctx.panicked
        /\ Len(RootBindings.entries) = 1
        /\ RootBindings.entries[1].key = KeyName(na)
        /\ RootBindings.entries[1].value.tag = "Expr"
        /\ LET inner == ctx.exprs[RootBindings.entries[1].value.id + 1]
               keys == C1_AllInnerKeys(decls, 1)
           IN  /\ inner.tag = "Attrset"
               /\ Len(inner.bindings.entries) = Len(keys)
               /\ {KeyText(ctx, inner.bindings.entries[i].key) :
                      i \in 1..Len(inner.bindings.entries)}
                  = {keys[i] : i \in 1..Len(keys)}

\* a path, a set literal and a parenthesised set literal folded into one entry
C1_Witness ==
    /\ C1_Case
    /\ Len(decls) = MaxDecls
    /\ \E i \in 1..Len(decls) : C1_IsPathShape(decls[i])
    /\ \E i \in 1..Len(decls) : C1_IsSetShape(decls[i])
    /\ Len(RootBindings.entries) = 1
    /\ Len(ctx.exprs[RootBindings.entries[1].value.id + 1].bindings.entries)
          = MaxDecls

-----------------------------------------------------------------------------
(***************************************************************************)
(* C2.  N conflicting declarations of one static key.                      *)
(***************************************************************************)
\* every declaration so far is  a = v  for a terminal v, `a` in any static
\* spelling, and there are at least two of them
C2_Case ==
    /\ Len(decls) >= 2
    /\ \A i \in 1..Len(decls) :
          /\ decls[i].d = "AttrpathValue"
          /\ Len(decls[i].attrpath) = 1
          /\ decls[i].attrpath[1] \in StaticSpellings(na)
          /\ IsTerminal(decls[i].value)

\* C2: N >= 2 conflicting declarations of the same static key in one set or
\* let body, recursive or not, raise exactly N DuplicatedKey diagnostics,
\* one at each declaration's key, the first definition's among them once.
C2_OneDuplicatedKeyPerDeclaration ==
    C2_Case =>
        /\ Len(DiagnosticsOf(ctx, "DuplicatedKey")) = Len(decls)
        /\ \A i \in 1..Len(decls) : CountAt(ctx, "DuplicatedKey", <<i, 1>>) = 1

-----------------------------------------------------------------------------
(***************************************************************************)
(* C3.  The conflict rule, on the step that folds one more declaration of  *)
(* `a` into the root set while `a` already has an entry.                   *)
(***************************************************************************)
\* the declaration the step folds, and its place
C3_Decl == decls'[Len(decls')]

\* the entry of `a` before and after the step
C3_Entry == set.entries[FindKey(set.entries, KeyName(na))].ent
C3_EntryAfter == set'.entries[FindKey(set.entries, KeyName(na))].ent

\* the diagnostics the step adds
C3_Added ==
    SubSeq(ctx'.diagnostics, Len(ctx.diagnostics) + 1, Len(ctx'.diagnostics))

C3_Folds ==
    /\ Len(decls') = Len(decls) + 1
    /\ ~set.is_rec
    /\ C3_Decl.d = "AttrpathValue"
    /\ C3_Decl.attrpath[1] = AName(na)
    /\ FindKey(set.entries, KeyName(na)) # 0

\* a terminal value declared for a key whose entry is a nested set
C3_TerminalOnSet ==
    /\ C3_Folds
    /\ C3_Entry.value.tag = "Attrset"
    /\ Len(C3_Decl.attrpath) = 1
    /\ IsTerminal(C3_Decl.value)

\* a dotted path or a set literal declared for a key whose entry is a value
C3_SetOnTerminal ==
    /\ C3_Folds
    /\ C3_Entry.value.tag = "Final"
    /\ Len(C3_Decl.attrpath) >= 2 \/ IsSetLiteral(C3_Decl.value)

\* where the conflicting declaration is reported: at its key, and for a set
\* literal at the literal
C3_OwnPosition ==
    IF Len(C3_Decl.attrpath) = 1 /\ IsSetLiteral(C3_Decl.value)
    THEN StripKeyParens(C3_Decl.value, <<Len(decls'), 0>>).pos
    ELSE <<Len(decls'), 1>>

\* the original definition once unless already reported, then the declaration
C3_Expected ==
    (IF C3_Entry.is_duplicated THEN <<>>
     ELSE <<[range |-> text_range(C3_Entry.def_ptr), kind |-> "DuplicatedKey"]>>)
    \o <<[range |-> C3_OwnPosition, kind |-> "DuplicatedKey"]>>

\* C3: a terminal value declared for a key whose entry is a nested set, or a
\* dotted path or set literal declared for a key whose entry is a terminal
\* value, leaves the entry a nested set, and raises DuplicatedKey exactly
\* once for the conflicting declaration (plus once for the original
\* definition if it was not reported yet); an entry that is a nested set
\* stays one.
C3_ConflictRule ==
    [][/\ C3_TerminalOnSet =>
             /\ C3_EntryAfter.value = C3_Entry.value
             /\ C3_Added = C3_Expected
       /\ C3_SetOnTerminal =>
             /\ C3_EntryAfter.value.tag = "Attrset"
             /\ C3_Added = C3_Expected
       /\ \A i \in 1..Len(set.entries) :
             set.entries[i].ent.value.tag = "Attrset"
                => set'.entries[i].ent.value.tag = "Attrset"]_vars

\* { a = 1; a.b = 1; a = 2; }: a set declared over a value, then a value
\* declared over the set
C3_Witness ==
    /\ kind = "attrset"
    /\ Len(decls) = 3
    /\ \A i \in 1..3 : decls[i].d = "AttrpathValue"
    /\ decls[1].attrpath = <<AName(na)>> /\ IsTerminal(decls[1].value)
    /\ decls[2].attrpath = <<AName(na), AName(nb)>>
    /\ decls[3].attrpath = <<AName(na)>> /\ IsTerminal(decls[3].value)
    /\ Len(set.entries) = 1
    /\ set.entries[1].ent.value.tag = "Attrset"
    /\ ctx.diagnostics = [i \in 1..3 |-> [range |-> <<i, 1>>, kind |-> "DuplicatedKey"]]

-----------------------------------------------------------------------------
(***************************************************************************)
(* C4.  Totality: the expression nodes of the input and the source map.    *)
(***************************************************************************)
RECURSIVE C4_ValueNodes(_, _)
RECURSIVE C4_DeclNodes(_, _)

\* the expression nodes under a right-hand side at pos: the node itself, or,
\* for a set literal that merge_ast folds into an entry, the nodes of its
\* declarations (the literal itself is counted as lowered with its entry)
C4_ValueNodes(e, pos) ==
    CASE e.e = "None" -> {}
      [] e.e = "Paren" -> C4_ValueNodes(e.inner, pos \o <<1>>)
      [] e.e = "AttrSet" /\ ~e.let_token ->
            UNION {C4_DeclNodes(e.bindings[i], pos \o <<i>>) :
                      i \in 1..Len(e.bindings)}
      [] OTHER -> {AstPtr(SyntaxKind(e), pos)}

C4_DeclNodes(d, pos) ==
    IF d.d = "Inherit"
    THEN IF d.has_from /\ d.from_expr.e \in {"Ref", "Literal"}
         THEN {AstPtr(SyntaxKind(d.from_expr), pos \o <<0>>)}
         ELSE {}
    ELSE C4_ValueNodes(d.value, pos \o <<0>>)

\* C4: after lower() returns, every syntax node in an expression position
\* (parentheses aside) has been lowered to a valid expression id, the
\* right-hand sides of declarations reported as DuplicatedKey included.
C4_EveryNodeLowered ==
    pc = "done" =>
        \A i \in 1..Len(decls) :
            \A n \in C4_DeclNodes(decls[i], <<i>>) :
                \E p \in ctx.expr_map : p[1] = n /\ p[2] \in 0..(Len(ctx.exprs) - 1)

-----------------------------------------------------------------------------
(***************************************************************************)
(* C5.  Order independence of merging non-overlapping paths.               *)
(***************************************************************************)
\* the texts of a static attribute path
C5_Path(d) == [j \in 1..Len(d.attrpath) |-> d.attrpath[j].text]

\* p equals q or is a prefix of q
C5_Prefix(p, q) == Len(p) <= Len(q) /\ SubSeq(q, 1, Len(p)) = p

\* a path/value declaration whose path is made of bare names
C5_StaticPath(d) ==
    /\ d.d = "AttrpathValue"
    /\ \A j \in 1..Len(d.attrpath) : d.attrpath[j].a = "Name"

\* a right-hand side that brings no dynamic or inherited key with it
C5_StaticValue(e) ==
    IsSetLiteral(e) =>
        \A i \in 1..Len(Unparen(e).bindings) :
            /\ C5_StaticPath(Unparen(e).bindings[i])
            /\ ~IsSetLiteral(Unparen(e).bindings[i].value)

C5_Case ==
    /\ pc = "done"
    /\ Len(decls) >= 2
    /\ \A i \in 1..Len(decls) :
          C5_StaticPath(decls[i]) /\ C5_StaticValue(decls[i].value)
    /\ \A i, j \in 1..Len(decls) :
          i # j => ~C5_Prefix(C5_Path(decls[i]), C5_Path(decls[j]))

\* Bindings as a mapping, expression ids replaced by what they point to
RECURSIVE C5_Norm(_, _)
C5_Norm(c, b) ==
    {[key |-> KeyText(c, b.entries[i].key),
      def |-> b.entries[i].key.tag = "NameDef",
      value |-> LET x == c.exprs[b.entries[i].value.id + 1]
                IN  [tag |-> x.tag,
                     lit |-> IF x.tag = "Literal" THEN x.lit ELSE 0,
                     entries |-> IF x.tag = "Attrset"
                                 THEN C5_Norm(c, x.bindings) ELSE {}]] :
        i \in 1..Len(b.entries)}

C5_Perms(n) ==
    {f \in [1..n -> 1..n] : \A i, j \in 1..n : i # j => f[i] # f[j]}

\* C5: declarations with static, pairwise non-overlapping attribute paths
\* lower, in every order, to the same nested Bindings (the same keys at
\* every level bound to the same right-hand expressions, as mappings and up
\* to renaming of ids) and to no diagnostics.
C5_OrderIndependent ==
    C5_Case =>
        /\ ctx.diagnostics = <<>>
        /\ \A f \in C5_Perms(Len(decls)) :
              LET Same(r) ==
                    /\ r.ctx.diagnostics = <<>>
                    /\ C5_Norm(r.ctx, r.bindings) = C5_Norm(ctx, RootBindings)
              IN  Same(lower_bindings(NewCtx, kind # "attrset",
                                      [i \in 1..Len(decls) |-> decls[f[i]]],
                                      TRUE, <<>>))

\* three declarations, two of them under the same first key
C5_Witness ==
    /\ C5_Case
    /\ Len(decls) = MaxDecls
    /\ kind = "attrset"
    /\ Len(RootBindings.entries) = 2
    /\ \E i \in 1..2 :
          /\ RootBindings.entries[i].value.tag = "Expr"
          /\ ctx.exprs[RootBindings.entries[i].value.id + 1].tag = "Attrset"
          /\ Len(ctx.exprs[RootBindings.entries[i].value.id + 1].bindings.entries) = 2

-----------------------------------------------------------------------------
(***************************************************************************)
(* C6.  An inherited name that already has an entry.                       *)
(***************************************************************************)
\* the entries of the root set, before the step, that are named t
C6_Named(t) ==
    {i \in 1..Len(set.entries) :
        /\ set.entries[i].key.tag # "Dynamic"
        /\ KeyText(ctx, set.entries[i].key) = t}

\* the step folds an `inherit` declaration
C6_Folds ==
    /\ Len(decls') = Len(decls) + 1
    /\ decls'[Len(decls')].d = "Inherit"

\* C6: an inherit (with or without a source) of a name that is the key of an
\* existing entry of any kind raises DuplicatedKey at that name and leaves
\* the existing entry's value unchanged, in recursive sets and let bodies as
\* well as in non-recursive sets.
C6_InheritCollides ==
    [][C6_Folds =>
          \A j \in 1..Len(decls'[Len(decls')].attrs) :
              LET attr == decls'[Len(decls')].attrs[j]
              IN  IsStaticAttr(attr) =>
                      \A i \in C6_Named(StaticText(attr)) :
                          /\ CountAt(ctx', "DuplicatedKey", <<Len(decls'), j>>) = 1
                          /\ set'.entries[i].ent.value = set.entries[i].ent.value]_vars

-----------------------------------------------------------------------------
(***************************************************************************)
(* C7.  InvalidDynamic.                                                    *)
(***************************************************************************)
RECURSIVE C7_Invalid(_, _, _)

\* the places of the dynamic keys of declaration d at pos that are not
\* allowed: those of an inherit list, those of a path when the declaration
\* is a let-in binding (allowed = FALSE), and those inside a set literal on
\* the right-hand side under the same rule, a literal allowing dynamic paths
C7_Invalid(d, pos, allowed) ==
    IF d.d = "Inherit"
    THEN {pos \o <<j>> : j \in {k \in 1..Len(d.attrs) : d.attrs[k] \in DynamicSpellings}}
    ELSE (IF allowed THEN {}
          ELSE {pos \o <<j>> :
                   j \in {k \in 1..Len(d.attrpath) : d.attrpath[k] \in DynamicSpellings}})
         \cup
         (IF IsSetLiteral(d.value)
          THEN UNION {C7_Invalid(Unparen(d.value).bindings[i],
                                 StripKeyParens(d.value, pos \o <<0>>).pos \o <<i>>,
                                 TRUE) :
                         i \in 1..Len(Unparen(d.value).bindings)}
          ELSE {})

C7_AllInvalid ==
    UNION {C7_Invalid(decls[i], <<i>>, kind # "letin") : i \in 1..Len(decls)}

\* the places of the dynamic keys among the root's own keys
C7_RootDynamic ==
    UNION {IF decls[i].d = "Inherit"
           THEN {<<i, j>> : j \in {k \in 1..Len(decls[i].attrs) :
                                      decls[i].attrs[k] \in DynamicSpellings}}
           ELSE IF decls[i].attrpath[1] \in DynamicSpellings THEN {<<i, 1>>} ELSE {} :
             i \in 1..Len(decls)}

C7_DynamicEntries == {i \in 1..Len(set.entries) : set.entries[i].key.tag = "Dynamic"}

\* C7: InvalidDynamic is emitted exactly once, at the key's own range, for
\* each dynamic key of an inherit list and of a path segment of a let-in
\* binding, and never for the dynamic keys of an attribute-set literal;
\* lowering goes on, and every dynamic key of the set is kept as an entry of
\* its own under a Dynamic key whose expression is in the module.
C7_InvalidDynamicOncePerKey ==
    /\ Len(DiagnosticsOf(ctx, "InvalidDynamic")) = Cardinality(C7_AllInvalid)
    /\ \A r \in C7_AllInvalid : CountAt(ctx, "InvalidDynamic", r) = 1
    /\ Cardinality(C7_DynamicEntries) = Cardinality(C7_RootDynamic)
    /\ \A r \in C7_RootDynamic :
          \E i \in C7_DynamicEntries :
              /\ text_range(set.entries[i].ent.def_ptr) = r
              /\ set.entries[i].key.id \in 0..(Len(ctx.exprs) - 1)
              /\ set.entries[i].ent.value.tag # "Placeholder"

\* `let ${x} = 1; inherit ${x}; b = { ${x} = 1; }; in` : two reported keys,
\* one allowed inside the literal
C7_Witness ==
    /\ kind = "letin"
    /\ pc = "done"
    /\ Len(decls) = 3
    /\ Cardinality(C7_AllInvalid) = 2
    /\ Cardinality(C7_RootDynamic) = 2
    /\ \E i \in 1..3 : decls[i].d = "Inherit"
    /\ \E i \in 1..3 :
          /\ decls[i].d = "AttrpathValue"
          /\ IsSetLiteral(decls[i].value)
          /\ Unparen(decls[i].value).bindings[1].d = "AttrpathValue"
          /\ Unparen(decls[i].value).bindings[1].attrpath[1] \in DynamicSpellings
    /\ Len(DiagnosticsOf(ctx, "InvalidDynamic")) = 2

-----------------------------------------------------------------------------
(***************************************************************************)
(* C8.  inherit (expr) n1 ... nk.                                          *)
(***************************************************************************)
\* the root's inherit declarations that have a source
C8_FromDecls == {i \in 1..Len(decls) : decls[i].d = "Inherit" /\ decls[i].has_from}

\* the place of declaration i's source in the inherit-source list
C8_Index(i) == Cardinality({k \in C8_FromDecls : k < i})

\* the InheritFrom indexes of a sequence of entries of finished Bindings
C8_Indexes(entries) ==
    {entries[k].value.id :
        k \in {n \in 1..Len(entries) : entries[n].value.tag = "InheritFrom"}}

\* the root entries that were defined at the place r
C8_DefinedAt(r) ==
    {k \in 1..Len(set.entries) :
        /\ text_range(set.entries[k].ent.def_ptr) = r
        /\ set.entries[k].key.tag # "Dynamic"}

\* C8: the source of `inherit (expr) n1 ... nk;` is lowered once and appended
\* once to the set's inherit-source list, also when k = 0; every name the
\* declaration introduces has the value InheritFrom(i), i the place of that
\* source in the list; and in all finished Bindings every InheritFrom(i) has
\* i below the length of the same Bindings' inherit-source list.
C8_InheritFromSharesOneSource ==
    /\ Len(set.inherit_froms) = Cardinality(C8_FromDecls)
    /\ \A i \in C8_FromDecls :
          /\ set.inherit_froms[C8_Index(i) + 1] \in 0..(Len(ctx.exprs) - 1)
          /\ decls[i].from_expr.e # "None" =>
                LET ptr == AstPtr(SyntaxKind(decls[i].from_expr), <<i, 0>>)
                IN  /\ Cardinality({p \in ctx.expr_map_rev : p[2] = ptr}) = 1
                    /\ <<set.inherit_froms[C8_Index(i) + 1], ptr>> \in ctx.expr_map_rev
          /\ \A j \in 1..Len(decls[i].attrs) :
                /\ \A k \in C8_DefinedAt(<<i, j>>) :
                      set.entries[k].ent.value =
                          Final(ValueInheritFrom(C8_Index(i)))
                /\ IsStaticAttr(decls[i].attrs[j]) =>
                      \/ C8_DefinedAt(<<i, j>>) # {}
                      \/ CountAt(ctx, "DuplicatedKey", <<i, j>>) >= 1
    /\ \A k \in 1..Len(set.entries) :
          set.entries[k].ent.value.tag = "Final"
          /\ set.entries[k].ent.value.value.tag = "InheritFrom"
             => \E i \in C8_FromDecls :
                   /\ set.entries[k].ent.value.value.id = C8_Index(i)
                   /\ \E j \in 1..Len(decls[i].attrs) :
                         text_range(set.entries[k].ent.def_ptr) = <<i, j>>
    /\ pc = "done" =>
          \A n \in 1..Len(ctx.exprs) :
              ctx.exprs[n].tag \in {"Attrset", "LetAttrset", "LetIn"} =>
                  \A x \in C8_Indexes(ctx.exprs[n].bindings.entries) :
                      x < Len(ctx.exprs[n].bindings.inherit_froms)

\* { inherit (x); inherit (x) a b; }: an empty inherit, then two names that
\* share the second source
C8_Witness ==
    /\ pc = "done"
    /\ Len(decls) = 2
    /\ C8_FromDecls = {1, 2}
    /\ decls[1].attrs = <<>>
    /\ Len(RootBindings.inherit_froms) = 2
    /\ Len(RootBindings.entries) = 2
    /\ \A k \in 1..2 : RootBindings.entries[k].value = ValueInheritFrom(1)

-----------------------------------------------------------------------------
(***************************************************************************)
(* C9.  Which segments of a path become name definitions.                  *)
(***************************************************************************)
\* the root's path/value declarations with a dotted path
C9_Dotted == {i \in 1..Len(decls) :
                 decls[i].d = "AttrpathValue" /\ Len(decls[i].attrpath) >= 2}

\* a name definition was allocated for the j-th segment of declaration i
C9_IsNameDef(i, j) ==
    \E p \in ctx.name_def_map : text_range(p[1]) = <<i, j>>

\* C9, as stated: in p1.p2...pn = v only p1 can resolve to
\* a NameDef; p2..pn never allocate a NameDef, whatever was merged into the
\* same entry before.
C9_OnlyFirstSegmentIsNameDef ==
    \A i \in C9_Dotted :
        \A j \in 2..Len(decls[i].attrpath) : ~C9_IsNameDef(i, j)

\* the declarations before i that make the entry of i's first key a nested
\* set: a dotted path or a set literal under the same static first key
C9_Makers(i) ==
    {k \in 1..(i - 1) :
        /\ decls[k].d = "AttrpathValue"
        /\ IsStaticAttr(decls[k].attrpath[1])
        /\ IsStaticAttr(decls[i].attrpath[1])
        /\ StaticText(decls[k].attrpath[1]) = StaticText(decls[i].attrpath[1])
        /\ Len(decls[k].attrpath) >= 2 \/ IsSetLiteral(decls[k].value)}

\* the nested set that declaration i's later segments are merged into was
\* created by a `rec { }` literal: i's first key resolves to the entry of
\* earlier declarations (a non-recursive enclosing set), the first of which
\* to make it a set was  p1 = rec { ... }
C9_MergedIntoRecLiteral(i) ==
    /\ kind = "attrset"
    /\ C9_Makers(i) # {}
    /\ LET k == CHOOSE m \in C9_Makers(i) : \A n \in C9_Makers(i) : m <= n
       IN  Len(decls[k].attrpath) = 1 /\ Unparen(decls[k].value).rec_token

\* C9 (amended): p1 resolves to a NameDef exactly when the enclosing set is
\* recursive; a later static segment resolves to a NameDef exactly when the
\* nested set it is merged into was created by a `rec { }` literal, and to a
\* plain Name otherwise; a dynamic segment never allocates a NameDef.
C9_SegmentsFollowTheirSet ==
    \A i \in C9_Dotted :
        /\ IsStaticAttr(decls[i].attrpath[1]) =>
              (C9_IsNameDef(i, 1) <=> kind # "attrset")
        /\ \A j \in 2..Len(decls[i].attrpath) :
              C9_IsNameDef(i, j) <=>
                  (IsStaticAttr(decls[i].attrpath[j]) /\ C9_MergedIntoRecLiteral(i))

\* { a = rec { c = 2; }; a.b = 1; a.d = 3; }: later segments that are name
\* definitions, in a set that is not recursive
C9_Witness ==
    /\ pc = "done"
    /\ kind = "attrset"
    /\ Len(decls) = 3
    /\ C9_Dotted = {2, 3}
    /\ \A i \in C9_Dotted : C9_IsNameDef(i, 2) /\ ~C9_IsNameDef(i, 1)
    /\ Len(ctx.name_defs) = 3

-----------------------------------------------------------------------------
(***************************************************************************)
(* C10.  Key resolution of the spellings of a key.                         *)
(***************************************************************************)
\* the places of the root set's own keys: the first segment of each path,
\* every name of each inherit list
C10_Keys ==
    UNION {IF decls[i].d = "Inherit"
           THEN {<<i, j>> : j \in 1..Len(decls[i].attrs)}
           ELSE {<<i, 1>>} : i \in 1..Len(decls)}

C10_Attr(r) ==
    IF decls[r[1]].d = "Inherit" THEN decls[r[1]].attrs[r[2]]
    ELSE decls[r[1]].attrpath[r[2]]

C10_Static == {r \in C10_Keys : IsStaticAttr(C10_Attr(r))}

\* the node a name definition of the key at r points to: the name, the
\* string, or the string inside ${ } and its parentheses
C10_Ptr(r) ==
    IF C10_Attr(r).a = "Dynamic"
    THEN AstPtr("STRING", StripKeyParens(C10_Attr(r).expr, r \o <<1>>).pos)
    ELSE AttrPtr(C10_Attr(r), r)

\* two declarations of one text with terminal values
C10_Collide(i, k) ==
    /\ i < k
    /\ \A n \in {i, k} :
          /\ decls[n].d = "AttrpathValue"
          /\ Len(decls[n].attrpath) = 1
          /\ IsStaticAttr(decls[n].attrpath[1])
          /\ IsTerminal(decls[n].value)
    /\ StaticText(decls[i].attrpath[1]) = StaticText(decls[k].attrpath[1])

\* C10: a bare name, a quoted key and a ${ } of a string without
\* interpolation, in any number of parentheses, resolve alike: in a
\* non-recursive set to the key Name(text), escapes decoded, so that two of
\* them with terminal values collide and raise DuplicatedKey; in a recursive
\* set each to a NameDef of that text; only a string with interpolation or a
\* computed expression that is no string resolves to Dynamic.
C10_StaticSpellingsResolveAlike ==
    /\ ~set.is_rec =>
          /\ {set.entries[k].key :
                 k \in {n \in 1..Len(set.entries) : set.entries[n].key.tag = "Name"}}
             = {KeyName(StaticText(C10_Attr(r))) : r \in C10_Static}
          /\ \A k \in 1..Len(set.entries) : set.entries[k].key.tag # "NameDef"
          /\ \A i, k \in 1..Len(decls) :
                C10_Collide(i, k) => CountAt(ctx, "DuplicatedKey", <<k, 1>>) = 1
    /\ set.is_rec =>
          /\ \A r \in C10_Static :
                \E p \in ctx.name_def_map :
                    /\ p[1] = C10_Ptr(r)
                    /\ ctx.name_defs[p[2] + 1].name = StaticText(C10_Attr(r))
                    /\ \E k \in 1..Len(set.entries) :
                          set.entries[k].key = KeyNameDef(p[2])
          /\ \A k \in 1..Len(set.entries) : set.entries[k].key.tag # "Name"
    /\ Cardinality({k \in 1..Len(set.entries) : set.entries[k].key.tag = "Dynamic"})
          = Cardinality(C10_Keys \ C10_Static)
    /\ \A r \in C10_Keys \ C10_Static : C10_Attr(r) \in DynamicSpellings

\* { "\a" = 1; ${("a")} = 1; ${(x)} = 1; }: two spellings of `a` collide, the
\* computed key does not
C10_Witness ==
    /\ kind = "attrset"
    /\ Len(decls) = 3
    /\ \A i \in 1..3 : decls[i].d = "AttrpathValue"
    /\ decls[1].attrpath = <<AString(EscA)>>
    /\ decls[2].attrpath = <<ADynamic(EParen(EString(StrA)))>>
    /\ decls[3].attrpath = <<ADynamic(Parens(MaxParens, ERef(nx)))>>
    /\ Len(set.entries) = 2
    /\ set.entries[1].key = KeyName(na)
    /\ set.entries[2].key.tag = "Dynamic"
    /\ Len(ctx.diagnostics) = 2

-----------------------------------------------------------------------------
(***************************************************************************)
(* C11.  Dynamic keys of path/value declarations.                          *)
(***************************************************************************)
RECURSIVE C11_KeyPlaces(_, _)
\* the places of the dynamic keys of the path/value declarations ds of the set
\* at pos, and of the set literals that these declarations merge
C11_KeyPlaces(ds, pos) ==
    UNION {
        IF ds[i].d # "AttrpathValue" \/ ds[i].attrpath = <<>> THEN {}
        ELSE {pos \o <<i, j>> : j \in {j \in 1..Len(ds[i].attrpath) :
                                          ~IsStaticAttr(ds[i].attrpath[j])}}
             \cup (IF IsSetLiteral(ds[i].value)
                   THEN C11_KeyPlaces(Unparen(ds[i].value).bindings,
                                      StripKeyParens(ds[i].value, pos \o <<i, 0>>).pos)
                   ELSE {})
        : i \in 1..Len(ds)}

RECURSIVE C11_Entries(_)
\* the Dynamic-keyed entries of the merging set s and of the sets nested in it
C11_Entries(s) ==
    UNION {
        (IF s.entries[i].key.tag = "Dynamic"
         THEN {[id |-> s.entries[i].key.id, at |-> s.entries[i].ent.def_ptr.at]}
         ELSE {})
        \cup (IF s.entries[i].ent.value.tag = "Attrset"
              THEN C11_Entries(s.entries[i].ent.value.set)
              ELSE {})
        : i \in 1..Len(s.entries)}

\* the Dynamic keys of every finished Bindings of the module, one per entry
C11_FinishedKeys ==
    UNION {
        IF ctx.exprs[n].tag \in {"Attrset", "LetAttrset", "LetIn"}
        THEN {<<n, i>> : i \in {i \in 1..Len(ctx.exprs[n].bindings.entries) :
                                   ctx.exprs[n].bindings.entries[i].key.tag = "Dynamic"}}
        ELSE {}
        : n \in 1..Len(ctx.exprs)}

\* C11: dynamic keys never merge.  Every dynamic key written in a path/value
\* declaration has an entry of its own, keyed by an expression id no other
\* entry has, and no DuplicatedKey is reported at it; the finished Bindings
\* hold as many Dynamic-keyed entries of these ids as there are such keys.
C11_DynamicKeysNeverMerge ==
    LET places == C11_KeyPlaces(decls, <<>>)
        ents == IF places = {} THEN {}
                ELSE {e \in C11_Entries(set) : e.at \in places}
    IN  /\ \A p \in places :
              /\ Cardinality({e \in ents : e.at = p}) = 1
              /\ CountAt(ctx, "DuplicatedKey", p) = 0
        /\ Cardinality({e.id : e \in ents}) = Cardinality(places)
        /\ (pc = "done" /\ places # {}) =>
              Cardinality({f \in C11_FinishedKeys :
                              ctx.exprs[f[1]].bindings.entries[f[2]].key.id
                                  \in {e.id : e \in ents}})
                  = Cardinality(places)

\* `{ ${(x)} = 1; ${(x)} = 1; }` is lowered to two Dynamic entries, silently
C11_Witness ==
    /\ pc = "done"
    /\ kind = "attrset"
    /\ Len(decls) = 2
    /\ \A i \in 1..2 :
          decls[i] = DPathValue(<<ADynamic(Parens(MaxParens, ERef(nx)))>>, Lit1)
    /\ Len(RootBindings.entries) = 2
    /\ \A i \in 1..2 : RootBindings.entries[i].key.tag = "Dynamic"
    /\ RootBindings.entries[1].key # RootBindings.entries[2].key
    /\ ctx.diagnostics = <<>>

-----------------------------------------------------------------------------
(***************************************************************************)
(* C12.  The normalization of path literals, against the normalization    *)
(* by whole segments.                                                      *)
(***************************************************************************)
RECURSIVE C12_Segments(_, _)
\* the segments of text between its slashes; seg is the one being read
C12_Segments(text, seg) ==
    IF text = <<>> THEN <<seg>>
    ELSE IF Head(text) = "/" THEN <<seg>> \o C12_Segments(Tail(text), <<>>)
    ELSE C12_Segments(Tail(text), Append(seg, Head(text)))

RECURSIVE C12_Fold(_, _, _)
\* empty and `.` segments dropped; `..` removes the last kept segment, or
\* counts as one more super when none is kept
C12_Fold(segs, supers, kept) ==
    IF segs = <<>> THEN [supers |-> supers, kept |-> kept]
    ELSE IF Head(segs) \in {<<>>, <<".">>} THEN C12_Fold(Tail(segs), supers, kept)
    ELSE IF Head(segs) # <<".", ".">>
    THEN C12_Fold(Tail(segs), supers, Append(kept, Head(segs)))
    ELSE IF kept # <<>>
    THEN C12_Fold(Tail(segs), supers, SubSeq(kept, 1, Len(kept) - 1))
    ELSE C12_Fold(Tail(segs), supers + 1, kept)

RECURSIVE C12_Join(_)
\* the segments joined by single slashes
C12_Join(kept) ==
    IF kept = <<>> THEN <<>>
    ELSE IF Len(kept) = 1 THEN kept[1]
    ELSE kept[1] \o <<"/">> \o C12_Join(Tail(kept))

\* the Literal that the normalization by whole segments gives for the token e
C12_Reference(e) ==
    LET inner == IF e.lkind = "SearchPath" THEN SubSeq(e.text, 2, Len(e.text) - 1)
                 ELSE IF e.text[1] = "~" THEN Tail(e.text)
                 ELSE e.text
        segs == C12_Segments(inner, <<>>)
        anchor == IF e.lkind = "SearchPath" THEN PathAnchor("Search", Head(segs))
                  ELSE IF e.text[1] = "/" THEN PathAnchor("Absolute", <<>>)
                  ELSE IF e.text[1] = "~" THEN PathAnchor("Home", <<>>)
                  ELSE PathAnchor("Relative", <<>>)
        With(f) ==
          LiteralPath(anchor, IF anchor.tag = "Absolute" THEN 0 ELSE f.supers,
                      C12_Join(f.kept))
    IN  With(C12_Fold(IF e.lkind = "SearchPath" THEN Tail(segs) ELSE segs, 0, <<>>))

\* C12: the path literal lower() allocates for a path token is the one of
\* the normalization by whole segments: empty and `.` segments dropped, each
\* `..` removing the whole previous real segment or else counted in supers,
\* the rest joined by single slashes, and supers 0 under an Absolute anchor.
C12_NormalizationIsReference ==
    (pc = "done" /\ kind = "literal") =>
        ctx.exprs[entry + 1] = C12_Reference(lit)

-----------------------------------------------------------------------------
(***************************************************************************)
(* C13.  The id-to-pointer tables of the source map.                       *)
(***************************************************************************)
\* the ids of the table m of id-to-pointer pairs
C13_Mapped(m) == {p[1] : p \in m}

\* C13, as stated: once lower() returned, every expression id and every
\* name-definition id has an entry in its id-to-pointer map.
C13_EveryIdIsMapped ==
    pc = "done" =>
        /\ \A id \in 0..Len(ctx.exprs) - 1 : id \in C13_Mapped(ctx.expr_map_rev)
        /\ \A id \in 0..Len(ctx.name_defs) - 1 :
              id \in C13_Mapped(ctx.name_def_map_rev)

\* C13: at every point of lowering, every name-definition id has exactly one
\* entry in its id-to-pointer map, every expression id has at most one entry
\* in its own, and the expression ids with no entry are Missing expressions
\* (the placeholders of absent children, which have no text); no entry is
\* for an id that is not allocated, and each entry's pointer is a key of the
\* pointer-to-id map.
C13_EveryLoweredNodeIsMapped ==
    /\ C13_Mapped(ctx.name_def_map_rev) = 0..Len(ctx.name_defs) - 1
    /\ Cardinality(ctx.name_def_map_rev) = Len(ctx.name_defs)
    /\ C13_Mapped(ctx.expr_map_rev) \subseteq 0..Len(ctx.exprs) - 1
    /\ Cardinality(ctx.expr_map_rev) = Cardinality(C13_Mapped(ctx.expr_map_rev))
    /\ \A id \in (0..Len(ctx.exprs) - 1) \ C13_Mapped(ctx.expr_map_rev) :
          ctx.exprs[id + 1].tag = "Missing"
    /\ \A p \in ctx.expr_map_rev : p[2] \in C13_Mapped(ctx.expr_map)
    /\ \A p \in ctx.name_def_map_rev : p[2] \in C13_Mapped(ctx.name_def_map)

\* `rec { a = ; }`: the name a and the set are mapped, the Missing value is not
C13_Witness ==
    /\ pc = "done"
    /\ kind = "rec"
    /\ decls = <<DPathValue(<<AName(na)>>, ENone)>>
    /\ ctx.exprs[1].tag = "Missing"
    /\ C13_Mapped(ctx.expr_map_rev) = {1}
    /\ Len(ctx.exprs) = 2
    /\ C13_Mapped(ctx.name_def_map_rev) = {0}

-----------------------------------------------------------------------------
(***************************************************************************)
(* C14.  Declarations whose attribute path is absent.                      *)
(***************************************************************************)
\* this step folds a declaration with no attribute path into the root set
C14_Folds ==
    /\ Len(decls') = Len(decls) + 1
    /\ decls'[Len(decls')].d = "AttrpathValue"
    /\ decls'[Len(decls')].attrpath = <<>>

\* the entry this step appended to the root set
C14_New == set'.entries[Len(set'.entries)]

\* the expression id v is what the right-hand side e at pos was lowered to by
\* this step
C14_Lowered(e, pos, v) ==
    /\ v >= Len(ctx.exprs)
    /\ v < Len(ctx'.exprs)
    /\ CASE e.e = "None" ->
              /\ ctx'.exprs[v + 1].tag = "Missing"
              /\ v \notin C13_Mapped(ctx'.expr_map_rev)
         [] e.e = "Literal" ->
              /\ ctx'.exprs[v + 1] = [tag |-> "Literal", lit |-> e.value]
              /\ <<v, AstPtr("LITERAL", pos)>> \in ctx'.expr_map_rev
         [] e.e = "AttrSet" ->
              /\ ctx'.exprs[v + 1].tag = "Attrset"
              /\ Len(ctx'.exprs[v + 1].bindings.entries) = Len(e.bindings)
              /\ <<v, AstPtr("ATTR_SET", pos)>> \in ctx'.expr_map_rev

\* C14: a path/value declaration with no attribute path is not dropped.  The
\* step that folds it lowers its right-hand side, allocates a new Missing
\* expression at the declaration, appends one entry to the current set that
\* binds Dynamic(that Missing) to the lowered right-hand side, emits no
\* diagnostic and changes nothing else of the set.
C14_MissingPathIsRecovered ==
    [][C14_Folds =>
          /\ Len(set'.entries) = Len(set.entries) + 1
          /\ set' = [set EXCEPT !.entries = Append(set.entries, C14_New)]
          /\ C14_New.key.tag = "Dynamic"
          /\ C14_New.key.id = Len(ctx'.exprs) - 1
          /\ C14_New.key.id >= Len(ctx.exprs)
          /\ ctx'.exprs[C14_New.key.id + 1].tag = "Missing"
          /\ <<C14_New.key.id, AstPtr("ATTR_PATH_VALUE", <<Len(decls')>>)>>
                \in ctx'.expr_map_rev
          /\ C14_New.ent.value.tag = "Final"
          /\ C14_New.ent.value.value.tag = "Expr"
          /\ C14_New.ent.value.value.id # C14_New.key.id
          /\ C14_Lowered(decls'[Len(decls')].value, <<Len(decls'), 0>>,
                         C14_New.ent.value.value.id)
          /\ ctx'.diagnostics = ctx.diagnostics]_vars

\* `{ a = 1; = 1; }` finishes with two entries, the second under a Missing
\* key, and no diagnostic
C14_Witness ==
    /\ pc = "done"
    /\ kind = "attrset"
    /\ decls = <<DPathValue(<<AName(na)>>, Lit1), DPathValue(<<>>, Lit1)>>
    /\ Len(RootBindings.entries) = 2
    /\ RootBindings.entries[1].key = KeyName(na)
    /\ RootBindings.entries[2].key.tag = "Dynamic"
    /\ ctx.exprs[RootBindings.entries[2].key.id + 1].tag = "Missing"
    /\ ctx.exprs[RootBindings.entries[2].value.id + 1] = [tag |-> "Literal", lit |-> 1]
    /\ ctx.diagnostics = <<>>

-----------------------------------------------------------------------------
(***************************************************************************)
(* C15.  No entry stays a Placeholder.                                     *)
(***************************************************************************)
RECURSIVE C15_HasPlaceholder(_)
\* some entry of the merging set s, or of a set nested in it, is a Placeholder
C15_HasPlaceholder(s) ==
    \E i \in 1..Len(s.entries) :
        \/ s.entries[i].ent.value.tag = "Placeholder"
        \/ /\ s.entries[i].ent.value.tag = "Attrset"
           /\ C15_HasPlaceholder(s.entries[i].ent.value.set)

\* the values of every finished Bindings of the module
C15_FinishedValues ==
    UNION {
        IF ctx.exprs[n].tag \in {"Attrset", "LetAttrset", "LetIn"}
        THEN {ctx.exprs[n].bindings.entries[i].value :
                 i \in 1..Len(ctx.exprs[n].bindings.entries)}
        ELSE {}
        : n \in 1..Len(ctx.exprs)}

\* C15: after every declaration folded (inherit or path/value, with or
\* without a right-hand side, an attribute path, or an expression inside its
\* parentheses) no entry of the merging set is a Placeholder, and finishing
\* gives every entry a BindingValue without reaching unreachable!().
C15_NoPlaceholderIsLeft ==
    /\ ~C15_HasPlaceholder(set)
    /\ ~ctx.panicked
    /\ \A v \in C15_FinishedValues : v.tag \in {"Expr", "Inherit", "InheritFrom"}

\* `{ a = (); = ; a.b = ; }` is finished
C15_Witness ==
    /\ pc = "done"
    /\ kind = "attrset"
    /\ decls = <<DPathValue(<<AName(na)>>, EParen(ENone)),
                 DPathValue(<<>>, ENone),
                 DPathValue(<<AName(na), AName(nb)>>, ENone)>>
    /\ ~ctx.panicked
    /\ Len(RootBindings.entries) = 2
    /\ \A i \in 1..2 : RootBindings.entries[i].value.tag = "Expr"

-----------------------------------------------------------------------------
(***************************************************************************)
(* C16.  Repeated names in recursive sets.                                 *)
(***************************************************************************)
\* the entries of static key (Name or NameDef) of the Bindings b whose text
\* is t
C16_Named(b, t) ==
    {i \in 1..Len(b.entries) :
        /\ b.entries[i].key.tag \in {"Name", "NameDef"}
        /\ KeyText(ctx, b.entries[i].key) = t}

\* C16: repeated occurrences of a name are unified by name into one entry,
\* in recursive sets and let bodies as in non-recursive sets: no finished
\* Bindings has two static-key entries of the same name.
C16_UnifiedByName ==
    pc = "done" =>
        \A n \in 1..Len(ctx.exprs) :
            ctx.exprs[n].tag \in {"Attrset", "LetAttrset", "LetIn"} =>
                \A t \in Texts : Cardinality(C16_Named(ctx.exprs[n].bindings, t)) <= 1

-----------------------------------------------------------------------------
(***************************************************************************)
(* C17.  The recursiveness of a nested set that declarations merge into.   *)
(***************************************************************************)
\* the declarations that make the entry of the name t a nested set: a dotted
\* path or a set literal under a static first key of text t
C17_Makers(t) ==
    {k \in 1..Len(decls) :
        /\ decls[k].d = "AttrpathValue"
        /\ decls[k].attrpath # <<>>
        /\ IsStaticAttr(decls[k].attrpath[1])
        /\ StaticText(decls[k].attrpath[1]) = t
        /\ Len(decls[k].attrpath) >= 2 \/ IsSetLiteral(decls[k].value)}

\* the first of them is  t = rec { ... }
C17_FirstIsRec(t) ==
    LET k == CHOOSE m \in C17_Makers(t) : \A n \in C17_Makers(t) : m <= n
    IN  Len(decls[k].attrpath) = 1 /\ Unparen(decls[k].value).rec_token

\* the root entries that are nested sets
C17_Sets(s) ==
    {i \in 1..Len(s.entries) : s.entries[i].ent.value.tag = "Attrset"}

\* in a root set that is not recursive, every nested set has the
\* recursiveness of the first declaration that made it a set, and its static
\* keys are NameDefs exactly when it is recursive
C17_FollowsFirst ==
    kind = "attrset" =>
        \A i \in C17_Sets(set) :
            LET t == set.entries[i].key.name
                inner == set.entries[i].ent.value.set
            IN  /\ C17_Makers(t) # {}
                /\ inner.is_rec = C17_FirstIsRec(t)
                /\ \A j \in 1..Len(inner.entries) :
                      \/ inner.entries[j].key.tag = "Dynamic"
                      \/ inner.entries[j].key.tag = "NameDef" <=> inner.is_rec

\* C17: the recursiveness of a nested set is fixed by the declaration that
\* first created it and no later declaration changes it: after `a = rec { }`
\* the keys of every later declaration merged into a are NameDefs, and after
\* a non-recursive literal or a dotted path the keys of a later
\* `a = rec { }` are plain Names.
C17_RecursivenessIsFixed ==
    [][/\ \A i \in C17_Sets(set) :
             /\ i \in C17_Sets(set')
             /\ set'.entries[i].ent.value.set.is_rec
                    = set.entries[i].ent.value.set.is_rec
       /\ C17_FollowsFirst']_vars

\* { a = rec { c = 2; }; a.d = 3; a = { b = 1; }; }: three NameDef keys in a
C17_Witness ==
    /\ pc = "done"
    /\ kind = "attrset"
    /\ decls = <<DPathValue(<<AName(na)>>, RecC),
                 DPathValue(<<AName(na), AName(nd)>>, ELit(3)),
                 DPathValue(<<AName(na)>>, SetB)>>
    /\ Len(set.entries) = 1
    /\ set.entries[1].ent.value.tag = "Attrset"
    /\ set.entries[1].ent.value.set.is_rec
    /\ Len(set.entries[1].ent.value.set.entries) = 3
    /\ \A j \in 1..3 : set.entries[1].ent.value.set.entries[j].key.tag = "NameDef"

-----------------------------------------------------------------------------
(***************************************************************************)
(* C18.  The ids that expressions refer to.                                *)
(***************************************************************************)
\* the expression ids of the Bindings b: Dynamic keys, values, and sources
C18_BindingsRefs(b) ==
    {b.entries[i].key.id :
        i \in {i \in 1..Len(b.entries) : b.entries[i].key.tag = "Dynamic"}}
    \cup {b.entries[i].value.id :
            i \in {i \in 1..Len(b.entries) :
                      b.entries[i].value.tag \in {"Expr", "Inherit"}}}
    \cup {b.inherit_froms[i] : i \in 1..Len(b.inherit_froms)}

\* the expression ids that the expression x refers to
C18_Refs(x) ==
    CASE x.tag = "StringInterpolation" -> {x.parts[i] : i \in 1..Len(x.parts)}
      [] x.tag \in {"Attrset", "LetAttrset"} -> C18_BindingsRefs(x.bindings)
      [] x.tag = "LetIn" -> C18_BindingsRefs(x.bindings) \cup {x.body}
      [] OTHER -> {}

RECURSIVE C18_MergingRefs(_)
\* the expression ids held by the merging set s and the sets nested in it
C18_MergingRefs(s) ==
    {s.inherit_froms[i] : i \in 1..Len(s.inherit_froms)}
    \cup UNION {
        (IF s.entries[i].key.tag = "Dynamic" THEN {s.entries[i].key.id} ELSE {})
        \cup (CASE s.entries[i].ent.value.tag = "Attrset" ->
                     C18_MergingRefs(s.entries[i].ent.value.set)
                [] s.entries[i].ent.value.tag = "Final" ->
                     IF s.entries[i].ent.value.value.tag \in {"Expr", "Inherit"}
                     THEN {s.entries[i].ent.value.value.id} ELSE {}
                [] OTHER -> {})
        : i \in 1..Len(s.entries)}

-----------------------------------------------------------------------------
(***************************************************************************)
(* C19.  Path/value declarations with no right-hand side.                  *)
(***************************************************************************)
\* the declaration this step folds
C19_Decl == decls'[Len(decls')]

\* this step folds a path/value declaration `p = ;` or `p = ();` of static
\* segments
C19_Folds ==
    /\ Len(decls') = Len(decls) + 1
    /\ C19_Decl.d = "AttrpathValue"
    /\ C19_Decl.attrpath # <<>>
    /\ \A j \in 1..Len(C19_Decl.attrpath) : IsStaticAttr(C19_Decl.attrpath[j])
    /\ Unparen(C19_Decl.value).e = "None"

\* the diagnostics this step adds
C19_Added ==
    SubSeq(ctx'.diagnostics, Len(ctx.diagnostics) + 1, Len(ctx'.diagnostics))

\* the root entry that the first segment of the declaration resolves to, 0
\* when it has none (always so in a recursive set)
C19_First ==
    IF set.is_rec THEN 0
    ELSE FindKey(set.entries, KeyName(StaticText(C19_Decl.attrpath[1])))

\* what the conflict rule reports when the first segment of a dotted path
\* hits a terminal entry: the original definition if not yet reported, then
\* the segment
C19_Expected ==
    IF /\ Len(C19_Decl.attrpath) >= 2
       /\ C19_First # 0
       /\ set.entries[C19_First].ent.value.tag = "Final"
    THEN (IF set.entries[C19_First].ent.is_duplicated THEN <<>>
          ELSE <<[range |-> set.entries[C19_First].ent.def_ptr.at,
                  kind |-> "DuplicatedKey"]>>)
         \o <<[range |-> <<Len(decls'), 1>>, kind |-> "DuplicatedKey"]>>
    ELSE <<>>

\* C19, as stated: a path/value declaration with no right-hand side never
\* raises DuplicatedKey, whatever the entries along its path.
C19_AbsentValueNeverDuplicates ==
    [][C19_Folds => DiagnosticsOf(ctx', "DuplicatedKey")
                        = DiagnosticsOf(ctx, "DuplicatedKey")]_vars

\* C19: a path/value declaration with no right-hand side raises no
\* DuplicatedKey at its last segment, whether that segment hits a terminal
\* entry, a nested set or nothing, and then leaves the entry it hits as it
\* was; the only diagnostics of the step are those of the conflict rule for
\* an earlier segment of its path that hits a terminal entry.
C19_AbsentValueIsSilentAtItsKey ==
    [][C19_Folds =>
          /\ CountAt(ctx', "DuplicatedKey",
                     <<Len(decls'), Len(C19_Decl.attrpath)>>) = 0
          /\ C19_Added = C19_Expected
          /\ (Len(C19_Decl.attrpath) = 1 /\ C19_First # 0) => set' = set]_vars

\* { a = 1; a = ; a.b = ; }: silent at `a = ;`, the conflict rule at `a.b`
C19_Witness ==
    /\ kind = "attrset"
    /\ decls = <<DPathValue(<<AName(na)>>, Lit1),
                 DPathValue(<<AName(na)>>, ENone),
                 DPathValue(<<AName(na), AName(nb)>>, ENone)>>
    /\ ctx.diagnostics = <<[range |-> <<1, 1>>, kind |-> "DuplicatedKey"],
                           [range |-> <<3, 1>>, kind |-> "DuplicatedKey"]>>
    /\ set.entries[1].ent.value.tag = "Attrset"

-----------------------------------------------------------------------------
(***************************************************************************)
(* C20.  Entries that hold an inherited value, and later declarations of   *)
(* their key.                                                              *)
(***************************************************************************)
\* the root entries whose value is Inherit(..) or InheritFrom(..)
C20_Inherited ==
    {j \in 1..Len(set.entries) :
        /\ set.entries[j].ent.value.tag = "Final"
        /\ set.entries[j].ent.value.value.tag \in {"Inherit", "InheritFrom"}}

\* the declaration this step folds
C20_Decl == decls'[Len(decls')]

\* this step folds a dotted path or a set literal whose first key resolves
\* to the root entry j
C20_MakesSet(j) ==
    /\ Len(decls') = Len(decls) + 1
    /\ C20_Decl.d = "AttrpathValue"
    /\ C20_Decl.attrpath # <<>>
    /\ IsStaticAttr(C20_Decl.attrpath[1])
    /\ ~set.is_rec
    /\ FindKey(set.entries, KeyName(StaticText(C20_Decl.attrpath[1]))) = j
    /\ Len(C20_Decl.attrpath) >= 2 \/ IsSetLiteral(C20_Decl.value)

\* C20, as stated: once an entry holds an inherited value, no later
\* declaration changes that.
C20_InheritedValueIsKept ==
    [][\A j \in C20_Inherited :
           set'.entries[j].ent.value = set.entries[j].ent.value]_vars

\* C20: an entry that holds an inherited value keeps it under every later
\* declaration but a dotted path or a set literal that resolves to it; such
\* a declaration is reported as DuplicatedKey and replaces the entry by a
\* nested set of that declaration's own bindings (each defined at a place
\* inside that declaration), in which the inherited value is not kept.
C20_InheritedValueIsReplaced ==
    [][\A j \in C20_Inherited :
           IF C20_MakesSet(j)
           THEN /\ set'.entries[j].ent.value.tag = "Attrset"
                /\ LET inner == set'.entries[j].ent.value.set.entries
                   IN  /\ Len(inner) = IF Len(C20_Decl.attrpath) >= 2 THEN 1
                                        ELSE Len(Unparen(C20_Decl.value).bindings)
                       /\ \A i \in 1..Len(inner) :
                             Head(inner[i].ent.def_ptr.at) = Len(decls')
                /\ CountAt(ctx', "DuplicatedKey",
                           set'.entries[j].ent.def_ptr.at) = 1
           ELSE set'.entries[j].ent.value = set.entries[j].ent.value]_vars

\* { inherit a; a.b = 1; }: a is bound to the set { b = 1; }
C20_Witness ==
    /\ pc = "done"
    /\ kind = "attrset"
    /\ decls = <<DInherit(FALSE, ENone, <<AName(na)>>),
                 DPathValue(<<AName(na), AName(nb)>>, Lit1)>>
    /\ Len(RootBindings.entries) = 1
    /\ RootBindings.entries[1].key = KeyName(na)
    /\ RootBindings.entries[1].value.tag = "Expr"
    /\ ctx.exprs[RootBindings.entries[1].value.id + 1].tag = "Attrset"
    /\ Len(ctx.exprs[RootBindings.entries[1].value.id + 1].bindings.entries) = 1
    /\ Len(ctx.diagnostics) = 2

-----------------------------------------------------------------------------
(***************************************************************************)
(* C21.  The two directions of the source map.                             *)
(***************************************************************************)
\* a table of the source map read in the other direction
C21_Inverse(m) == {<<p[2], p[1]>> : p \in m}

\* C21: the two directions of the source map are mutually inverse, for
\* expressions and for name definitions: the pointer recorded for an id is
\* sent back to that id, and the id recorded for a pointer is sent back to
\* that pointer, since no pointer is passed to an allocation twice.
C21_MapsAreMutuallyInverse ==
    /\ ctx.expr_map = C21_Inverse(ctx.expr_map_rev)
    /\ ctx.name_def_map = C21_Inverse(ctx.name_def_map_rev)

-----------------------------------------------------------------------------
(***************************************************************************)
(* C22.  A terminal value declared at a key that already holds a value.    *)
(***************************************************************************)
RECURSIVE C22_Hit(_, _, _)
RECURSIVE C22_Marked(_, _)
RECURSIVE C22_Entry(_, _)

\* the declaration this step folds
C22_Decl == decls'[Len(decls')]

\* the indices, set by set, of the entries the segments of path resolve to
\* from its k-th segment on in s, when its last segment resolves to an
\* entry that holds a finalized value; <<>> when it does not
C22_Hit(s, path, k) ==
    IF s.is_rec \/ ~IsStaticAttr(path[k]) THEN <<>>
    ELSE LET j == FindKey(s.entries, KeyName(StaticText(path[k])))
         IN  IF j = 0 THEN <<>>
             ELSE IF k = Len(path)
             THEN IF s.entries[j].ent.value.tag = "Final" THEN <<j>> ELSE <<>>
             ELSE IF s.entries[j].ent.value.tag # "Attrset" THEN <<>>
             ELSE LET Under(r) == IF r = <<>> THEN <<>> ELSE <<j>> \o r
                  IN  Under(C22_Hit(s.entries[j].ent.value.set, path, k + 1))

\* the entry of s at the indices h
C22_Entry(s, h) ==
    IF Len(h) = 1 THEN s.entries[h[1]].ent
    ELSE C22_Entry(s.entries[h[1]].ent.value.set, Tail(h))

\* s with the already-reported flag of the entry at the indices h set
C22_Marked(s, h) ==
    IF Len(h) = 1 THEN [s EXCEPT !.entries[h[1]].ent.is_duplicated = TRUE]
    ELSE [s EXCEPT !.entries[h[1]].ent.value.set = C22_Marked(@, Tail(h))]

\* the diagnostics of a conflict at the entry ent, found at the range at
C22_Reports(ent, at) ==
    (IF ent.is_duplicated THEN <<>>
     ELSE <<[range |-> ent.def_ptr.at, kind |-> "DuplicatedKey"]>>)
    \o <<[range |-> at, kind |-> "DuplicatedKey"]>>

\* this step folds a path/value declaration with a terminal right-hand side
C22_FoldsTerminal ==
    /\ Len(decls') = Len(decls) + 1
    /\ C22_Decl.d = "AttrpathValue"
    /\ C22_Decl.attrpath # <<>>
    /\ IsTerminal(C22_Decl.value)

\* C22: first definition wins on a terminal-terminal conflict: when the last
\* segment of a path/value declaration with a terminal right-hand side
\* resolves to an entry that holds a finalized value, the step appends the
\* DuplicatedKey diagnostics (at the entry's definition if it was not yet
\* reported, then at the new key) and sets the entry's already-reported
\* flag, and changes nothing else: every entry keeps its value, definition
\* pointer and place, and the expression table, the name definitions and
\* the source map are as before.
C22_FirstDefinitionWins ==
    [][C22_FoldsTerminal =>
          LET With(h) ==
                h # <<>> =>
                   /\ set' = C22_Marked(set, h)
                   /\ ctx' = [ctx EXCEPT !.diagnostics =
                                 @ \o C22_Reports(
                                          C22_Entry(set, h),
                                          <<Len(decls'), Len(C22_Decl.attrpath)>>)]
          IN  With(C22_Hit(set, C22_Decl.attrpath, 1))]_vars

\* { a = 1; a = 1; }: a is the first 1, the second was never lowered, and
\* both keys are reported
C22_Witness ==
    /\ pc = "done"
    /\ kind = "attrset"
    /\ decls = <<DPathValue(<<AName(na)>>, Lit1), DPathValue(<<AName(na)>>, Lit1)>>
    /\ Len(ctx.exprs) = 2
    /\ Len(RootBindings.entries) = 1
    /\ RootBindings.entries[1] = [key |-> KeyName(na), value |-> ValueExpr(0)]
    /\ <<AstPtr("LITERAL", <<1, 0>>), 0>> \in ctx.expr_map
    /\ ctx.diagnostics = <<[range |-> <<1, 1>>, kind |-> "DuplicatedKey"],
                           [range |-> <<2, 1>>, kind |-> "DuplicatedKey"]>>

=============================================================================
